---- MODULE Spec2Model ----
(***************************************************************************)
(* Model of the runway back end: the /app/list and /app/reviews handlers,  *)
(* AppService (GetApps, GetReviews, the file cache) and the models package *)
(* (App.UnmarshalJSON, ToAppResponse, ToReviewResponse).                   *)
(*                                                                         *)
(* Go strings that the code parses digit by digit (the rating label, the   *)
(* hours query parameter) are sequences of one-character strings; other    *)
(* strings are TLA+ strings.  A Go slice is a record [nil, elems] so that  *)
(* a nil slice and an empty non-nil slice stay distinct.  A JSON object is *)
(* a record whose domain is the set of members that are present.           *)
(***************************************************************************)
EXTENDS Integers, Sequences, FiniteSets, TLC

VARIABLES
    request,      \* the inbound request being answered, kind "none" when idle
    svc,          \* what the handler asked of AppService for that request
    response,     \* the HTTP response written for that request
    upApps,       \* what the upstream catalog endpoint answers to a GET
    upReviews,    \* what the upstream review endpoint answers to a GET
    clock,        \* time.Now()
    appsFile,     \* the file at Config.AppsStorageFile
    reviewsFile,  \* the file at Config.ReviewsStorageFile
    pinned,       \* history: the first non-empty catalog fetched and saved
    client,       \* the http.Client: its Timeout and the call it is blocked in
    flights,      \* concurrent GetApps calls and the bytes of the cache file
    page          \* the AppReviews component and the fetches it has started

vars == <<request, svc, response, upApps, upReviews, clock, appsFile,
          reviewsFile, pinned, client,
         flights, page>>

(***************************************************************************)
(* Bounds of the model.                                                    *)
(***************************************************************************)
MaxReviews == 2

\* The seconds of waiting that are counted one by one.
MaxWait == 3

\* The longest link array of a catalog entry.
MaxLinks == 2

MaxApps == 2

(***************************************************************************)
(* Go slices.                                                              *)
(***************************************************************************)
NilSlice == [nil |-> TRUE, elems |-> <<>>]

Slice(s) == [nil |-> FALSE, elems |-> s]

\* append(s, x): the result is never nil.
Append1(s, x) == [nil |-> FALSE, elems |-> Append(s.elems, x)]

(***************************************************************************)
(* time.Time and time.Duration.  An instant or a duration is the mixed     *)
(* radix triple [h, s, n] = h hours + s seconds + n nanoseconds with       *)
(* 0 <= s < 3600 and 0 <= n < 10^9 (h carries the sign), so that 64-bit    *)
(* nanosecond counts are exact without any single number leaving 32 bits.  *)
(***************************************************************************)
SecPerHour == 3600

NanoPerSec == 1000000000

T(h, s, n) == [h |-> h, s |-> s, n |-> n]

TAdd(a, b) ==
    LET n0 == a.n + b.n
        cn == IF n0 >= NanoPerSec THEN 1 ELSE 0
        s0 == a.s + b.s + cn
        cs == IF s0 >= SecPerHour THEN 1 ELSE 0
    IN  T(a.h + b.h + cs, s0 - cs * SecPerHour, n0 - cn * NanoPerSec)

TNeg(a) ==
    IF a.n = 0
    THEN IF a.s = 0 THEN T(-a.h, 0, 0) ELSE T(-a.h - 1, SecPerHour - a.s, 0)
    ELSE T(-a.h - 1, SecPerHour - 1 - a.s, NanoPerSec - a.n)

TSub(a, b) == TAdd(a, TNeg(b))

TLess(a, b) ==
    \/ a.h < b.h
    \/ a.h = b.h /\ a.s < b.s
    \/ a.h = b.h /\ a.s = b.s /\ a.n < b.n

\* Time.After: strictly later.
After(a, b) == TLess(b, a)

\* 2^64 ns, 2^63 - 1 ns and -2^63 ns as triples.
Two64 == T(5124095, 2073, 709551616)

MaxInt64 == T(2562047, 2836, 854775807)

MinInt64 == T(-2562048, 763, 145224192)

\* The int64 that a mathematical nanosecond count wraps to.
RECURSIVE Wrap64(_)
Wrap64(d) ==
    IF TLess(MaxInt64, d) THEN Wrap64(TSub(d, Two64))
    ELSE IF TLess(d, MinInt64) THEN Wrap64(TAdd(d, Two64))
    ELSE d

\* time.Duration(-hours) * time.Hour, an int64 multiplication.
WindowDuration(hours) == Wrap64(T(-hours, 0, 0))

(***************************************************************************)
(* strconv.Atoi on a sequence of characters: an optional sign followed by  *)
(* one or more decimal digits.                                             *)
(***************************************************************************)
Digits == <<"0", "1", "2", "3", "4", "5", "6", "7", "8", "9">>

IsDigit(c) == \E i \in 1..10 : Digits[i] = c

DigitVal(c) == (CHOOSE i \in 1..10 : Digits[i] = c) - 1

RECURSIVE DigitsVal(_)
DigitsVal(s) ==
    IF s = <<>> THEN 0
    ELSE DigitsVal(SubSeq(s, 1, Len(s) - 1)) * 10 + DigitVal(s[Len(s)])

Atoi(s) ==
    LET signed == s # <<>> /\ s[1] \in {"+", "-"}
        body   == IF signed THEN Tail(s) ELSE s
    IN  IF body = <<>> \/ \E i \in 1..Len(body) : ~IsDigit(body[i])
        THEN [ok |-> FALSE, val |-> 0]
        ELSE [ok |-> TRUE,
              val |-> IF signed /\ s[1] = "-" THEN -DigitsVal(body)
                      ELSE DigitsVal(body)]

(***************************************************************************)
(* Review timestamps.  The "updated" label is the record                   *)
(* [layout, h, s, n, off]: the layout the text is written in, the wall     *)
(* clock reading it spells (as a triple) and its zone offset in minutes.   *)
(* time.Parse(time.RFC3339, label) accepts the RFC3339 layout only and     *)
(* yields the instant wall - offset.                                       *)
(***************************************************************************)
Stamp(layout, wall, off) ==
    [layout |-> layout, h |-> wall.h, s |-> wall.s, n |-> wall.n, off |-> off]

EmptyStamp == Stamp("empty", T(0, 0, 0), 0)

Minutes(m) ==
    IF m >= 0 THEN T(m \div 60, (m % 60) * 60, 0)
    ELSE TNeg(T((-m) \div 60, ((-m) % 60) * 60, 0))

ParseRFC3339(label) ==
    IF label.layout = "rfc3339"
    THEN [ok |-> TRUE,
          t  |-> TSub(T(label.h, label.s, label.n), Minutes(label.off))]
    ELSE [ok |-> FALSE, t |-> T(0, 0, 0)]

(***************************************************************************)
(* The texts of the errors that the libraries hand to the program: of      *)
(* Client.Get, of io.ReadAll, of json.Unmarshal and of strconv.Atoi, each  *)
(* cut down to its last words.                                             *)
(***************************************************************************)
TransportText == "connection refused"

ReadText == "unexpected EOF"

JsonText == "cannot unmarshal"

SyntaxText == "invalid syntax"

(***************************************************************************)
(* models.Review: decoding of one entry of the review feed, and its        *)
(* encoding by json.MarshalIndent.                                         *)
(***************************************************************************)
\* The label of member key of a JSON object, def when it is omitted.
LabelOf(obj, key, def) ==
    IF key \in DOMAIN obj /\ "label" \in DOMAIN obj[key]
    THEN obj[key].label ELSE def

DecodeReview(obj) ==
    [ID        |-> LabelOf(obj, "id", ""),
     Author    |-> IF "author" \in DOMAIN obj
                   THEN LabelOf(obj.author, "name", "") ELSE "",
     Content   |-> LabelOf(obj, "content", ""),
     Rating    |-> LabelOf(obj, "rating", <<>>),
     Timestamp |-> LabelOf(obj, "updated", EmptyStamp)]

EncodeReview(r) ==
    [id      |-> [label |-> r.ID],
     author  |-> [name |-> [label |-> r.Author]],
     content |-> [label |-> r.Content],
     rating  |-> [label |-> r.Rating],
     updated |-> [label |-> r.Timestamp]]

RECURSIVE MapSeq(_, _)
MapSeq(Op(_), s) ==
    IF s = <<>> THEN <<>> ELSE <<Op(Head(s))>> \o MapSeq(Op, Tail(s))

\* json.Unmarshal(body, &reviewResponse) for the shapes a body can have.
DecodeReviewFeed(body) ==
    CASE body.shape = "entries" ->
             [ok |-> TRUE, entries |-> Slice(MapSeq(DecodeReview, body.entries))]
      [] body.shape \in {"nofeed", "noentry"} ->
             [ok |-> TRUE, entries |-> NilSlice]
      [] OTHER -> [ok |-> FALSE, entries |-> NilSlice]

\* Mutant of ToReviewResponse: a score outside 0..5 is refused.
ToReviewResponseValidatesRange(r) ==
    LET score == Atoi(r.Rating)
    IN  IF ~score.ok \/ score.val < 0 \/ score.val > 5
        THEN [ok |-> FALSE, val |-> <<>>,
              err |-> "failed to convert rating to integer: " \o SyntaxText]
        ELSE [ok |-> TRUE, err |-> "",
              val |-> [ID |-> r.ID, Content |-> r.Content, Author |-> r.Author,
                       Score |-> score.val, Time |-> r.Timestamp]]

\* Review.ToReviewResponse
ToReviewResponse(r) ==
    LET score == Atoi(r.Rating)
    IN  IF ~score.ok
        THEN [ok |-> FALSE, val |-> <<>>,
              err |-> "failed to convert rating to integer: " \o SyntaxText]
        ELSE [ok |-> TRUE, err |-> "",
              val |-> [ID |-> r.ID, Content |-> r.Content, Author |-> r.Author,
                       Score |-> score.val, Time |-> r.Timestamp]]

\* Mutant of convertLoop: a review whose rating does not convert is skipped.
RECURSIVE convertLoopSkipsBad(_, _)
convertLoopSkipsBad(reviews, acc) ==
    IF reviews = <<>> THEN [err |-> "", reviews |-> acc]
    ELSE LET r == ToReviewResponse(Head(reviews))
         IN  IF ~r.ok THEN convertLoopSkipsBad(Tail(reviews), acc)
             ELSE convertLoopSkipsBad(Tail(reviews), Append1(acc, r.val))

\* The loop of convertReviews over reviews, from the accumulator acc.
RECURSIVE convertLoop(_, _)
convertLoop(reviews, acc) ==
    IF reviews = <<>> THEN [err |-> "", reviews |-> acc]
    ELSE LET r == ToReviewResponse(Head(reviews))
         IN  IF ~r.ok THEN [err |-> r.err, reviews |-> NilSlice]
             ELSE convertLoop(Tail(reviews), Append1(acc, r.val))

convertReviews(reviews) == convertLoop(reviews.elems, NilSlice)

(***************************************************************************)
(* Files.  A file is absent, holds bytes that do not decode as the         *)
(* expected JSON array ("corrupt"), or holds a JSON array value            *)
(* [null, items]: json.MarshalIndent writes a nil slice as null.           *)
(***************************************************************************)
JNull == [null |-> TRUE, items |-> <<>>]

JArray(items) == [null |-> FALSE, items |-> items]

AbsentFile == [kind |-> "absent", data |-> JNull]

CorruptFile == [kind |-> "corrupt", data |-> JNull]

JsonFile(data) == [kind |-> "json", data |-> data]

\* The ways os.MkdirAll / os.WriteFile can end: written; failed before the
\* file was opened (file untouched); failed after the file was truncated.
DiskOutcomes == {"ok", "untouched", "truncated"}

\* The text of the error of os.MkdirAll or os.WriteFile.
DiskText == "no space left on device"

\* json.MarshalIndent of a slice whose elements encode by Enc.
MarshalSlice(Enc(_), data) ==
    IF data.nil THEN JNull ELSE JArray(MapSeq(Enc, data.elems))

\* saveDataToFile, given the encoded data
saveDataToFile(jsonData, file, disk) ==
    CASE disk = "ok"        -> [err |-> "", file |-> JsonFile(jsonData)]
      [] disk = "untouched" ->
             [err |-> "failed to create directory: " \o DiskText, file |-> file]
      [] OTHER ->
             [err |-> "failed to write data to file: " \o DiskText,
              file |-> CorruptFile]

\* Mutant of saveReviewsToFile: the reviews are added to those in the file.
saveReviewsToFileAppends(reviews, file, disk) ==
    saveDataToFile(JArray(file.data.items \o MapSeq(EncodeReview, reviews.elems)),
                   file, disk)

saveReviewsToFile(reviews, file, disk) ==
    saveDataToFile(MarshalSlice(EncodeReview, reviews), file, disk)

(***************************************************************************)
(* The upstream's answer to one GET: a transport failure, or a status and  *)
(* a body.  A body is unreadable (io.ReadAll fails), not the expected JSON *)
(* ("garbage"; "entryobject": entry is an object instead of an array), an  *)
(* envelope without the feed or the entry member, or a list of entries.    *)
(***************************************************************************)
NoBody == [shape |-> "garbage", entries |-> <<>>]

TransportError == [kind |-> "transport_error", status |-> 0, body |-> NoBody]

Http(status, body) == [kind |-> "http", status |-> status, body |-> body]

Body(shape) == [shape |-> shape, entries |-> <<>>]

Entries(es) == [shape |-> "entries", entries |-> es]

StatusOK == 200

(***************************************************************************)
(* AppService.GetAppReviewsFromApi and AppService.GetReviews.              *)
(***************************************************************************)
\* Mutant of Failed: the call is made once more before the error is
\* returned.
FailedAfterRetry(err, file, calls) ==
    [err |-> err, reviews |-> NilSlice, file |-> file, calls |-> calls + 1,
     saved |-> FALSE]

\* A return of nil and an error after calls upstream requests.
Failed(err, file, calls) ==
    [err |-> err, reviews |-> NilSlice, file |-> file, calls |-> calls,
     saved |-> FALSE]

\* The end of GetAppReviewsFromApi: the entries are returned whatever the
\* save did.
reviewsFetched(entries, save) ==
    [err |-> "", reviews |-> entries, file |-> save.file, calls |-> 1,
     saved |-> save.err = ""]

\* Mutant of reviewsDecoded: the file is written before the decoding error
\* is looked at.
reviewsDecodedSavesFirst(feed, file, disk) ==
    IF ~feed.ok
    THEN Failed("failed to unmarshal reviews JSON: " \o JsonText,
                saveReviewsToFile(feed.entries, file, disk).file, 1)
    ELSE reviewsFetched(feed.entries,
                        saveReviewsToFile(feed.entries, file, disk))

\* GetAppReviewsFromApi from the decoding of the body on.
reviewsDecoded(feed, file, disk) ==
    IF ~feed.ok
    THEN Failed("failed to unmarshal reviews JSON: " \o JsonText, file, 1)
    ELSE reviewsFetched(feed.entries,
                        saveReviewsToFile(feed.entries, file, disk))

\* Mutant of GetAppReviewsFromApi: the status code is not looked at.
GetAppReviewsFromApiIgnoresStatus(up, file, disk) ==
    IF up.kind = "transport_error"
    THEN Failed("failed to make HTTP request for reviews: " \o TransportText,
                file, 1)
    ELSE IF up.body.shape = "unreadable"
    THEN Failed("failed to read reviews response body: " \o ReadText, file, 1)
    ELSE reviewsDecoded(DecodeReviewFeed(up.body), file, disk)

\* Mutant of GetAppReviewsFromApi: when the request fails the reviews of
\* the storage file are returned.
GetAppReviewsFromApiFallsBackToFile(up, file, disk) ==
    IF up.kind = "transport_error"
    THEN IF file.kind = "json"
         THEN [err |-> "",
               reviews |-> Slice(MapSeq(DecodeReview, file.data.items)),
               file |-> file, calls |-> 1, saved |-> FALSE]
         ELSE Failed("failed to make HTTP request for reviews: "
                         \o TransportText, file, 1)
    ELSE IF up.status # StatusOK
    THEN Failed("received non-200 status code for reviews: "
                    \o ToString(up.status), file, 1)
    ELSE IF up.body.shape = "unreadable"
    THEN Failed("failed to read reviews response body: " \o ReadText, file, 1)
    ELSE reviewsDecoded(DecodeReviewFeed(up.body), file, disk)

GetAppReviewsFromApi(up, file, disk) ==
    IF up.kind = "transport_error"
    THEN Failed("failed to make HTTP request for reviews: " \o TransportText,
                file, 1)
    ELSE IF up.status # StatusOK
    THEN Failed("received non-200 status code for reviews: "
                    \o ToString(up.status), file, 1)
    ELSE IF up.body.shape = "unreadable"
    THEN Failed("failed to read reviews response body: " \o ReadText, file, 1)
    ELSE reviewsDecoded(DecodeReviewFeed(up.body), file, disk)

\* Mutant of recentLoop: a review whose timestamp does not parse is kept.
RECURSIVE recentLoopKeepsUnparsed(_, _, _)
recentLoopKeepsUnparsed(all, cutoff, acc) ==
    IF all = <<>> THEN acc
    ELSE LET review     == Head(all)
             reviewTime == ParseRFC3339(review.Timestamp)
         IN  IF ~reviewTime.ok \/ After(reviewTime.t, cutoff)
             THEN recentLoopKeepsUnparsed(Tail(all), cutoff, Append1(acc, review))
             ELSE recentLoopKeepsUnparsed(Tail(all), cutoff, acc)

\* The filtering loop of GetReviews over all, from the accumulator acc.
RECURSIVE recentLoop(_, _, _)
recentLoop(all, cutoff, acc) ==
    IF all = <<>> THEN acc
    ELSE LET review     == Head(all)
             reviewTime == ParseRFC3339(review.Timestamp)
         IN  IF ~reviewTime.ok THEN recentLoop(Tail(all), cutoff, acc)
             ELSE IF After(reviewTime.t, cutoff)
                  THEN recentLoop(Tail(all), cutoff, Append1(acc, review))
                  ELSE recentLoop(Tail(all), cutoff, acc)

\* The return of GetReviews after convertReviews.
reviewsConverted(api, conv) ==
    [api EXCEPT !.err = conv.err, !.reviews = conv.reviews]

\* Mutant of reviewsSelected: window 0 is filtered like any other window.
reviewsSelectedAlwaysFilters(hours, now, api) ==
    IF api.err # "" THEN [api EXCEPT !.err = "failed to get reviews: " \o @]
    ELSE reviewsConverted(api, convertReviews(
             recentLoop(api.reviews.elems,
                        TAdd(now, WindowDuration(hours)), NilSlice)))

\* GetReviews from the result api of GetAppReviewsFromApi on.
reviewsSelected(hours, now, api) ==
    IF api.err # "" THEN [api EXCEPT !.err = "failed to get reviews: " \o @]
    ELSE IF hours = 0 THEN reviewsConverted(api, convertReviews(api.reviews))
    ELSE reviewsConverted(api, convertReviews(
             recentLoop(api.reviews.elems,
                        TAdd(now, WindowDuration(hours)), NilSlice)))

GetReviews(hours, up, now, file, disk) ==
    reviewsSelected(hours, now, GetAppReviewsFromApi(up, file, disk))

(***************************************************************************)
(* Handlers.AppReviewsHandler.                                             *)
(***************************************************************************)
StatusBadRequest == 400

StatusInternalServerError == 500

NoCall ==
    [called |-> FALSE, hours |-> 0, calls |-> 0, now |-> T(0, 0, 0),
     saved |-> FALSE]

ErrorResponse(status, err) == [status |-> status, err |-> err, body |-> JNull]

\* json.NewEncoder(w).Encode of a slice: a nil slice encodes as null.
EncodeBody(slice) == IF slice.nil THEN JNull ELSE JArray(slice.elems)

OkResponse(slice) == [status |-> StatusOK, err |-> "", body |-> EncodeBody(slice)]

\* The outcome of a handler that returns before calling the service.
Rejected(file, err) ==
    [svc |-> NoCall, file |-> file,
     response |-> ErrorResponse(StatusBadRequest, err)]

\* The outcome of a handler from the result r of its service call on.
Served(hours, now, r) ==
    [svc |-> [called |-> TRUE, hours |-> hours, calls |-> r.calls,
              now |-> now, saved |-> r.saved],
     file |-> r.file,
     response |-> IF r.err # ""
                  THEN ErrorResponse(StatusInternalServerError,
                                     "Error fetching reviews: " \o r.err)
                  ELSE OkResponse(r.reviews)]

\* hours := 0; if hoursStr != "" { hours, err = strconv.Atoi(hoursStr) }
ParseHours(hoursStr) ==
    IF hoursStr = <<>> THEN [ok |-> TRUE, val |-> 0] ELSE Atoi(hoursStr)

\* Mutant of HoursChecked: a negative hours value is passed on.
HoursCheckedAllowsNegative(parsed, up, now, file, disk) ==
    IF ~parsed.ok THEN Rejected(file, "Invalid 'hours' parameter")
    ELSE Served(parsed.val, now, GetReviews(parsed.val, up, now, file, disk))

\* AppReviewsHandler from the test of the parsed hours on.
HoursChecked(parsed, up, now, file, disk) ==
    IF ~parsed.ok \/ parsed.val < 0
    THEN Rejected(file, "Invalid 'hours' parameter")
    ELSE Served(parsed.val, now, GetReviews(parsed.val, up, now, file, disk))

\* The outcome of the handler: the call it made, the response, the file.
ReviewsOutcome(appID, hoursStr, up, now, file, disk) ==
    IF appID = "" THEN Rejected(file, "Missing 'id' query parameter")
    ELSE HoursChecked(ParseHours(hoursStr), up, now, file, disk)

(***************************************************************************)
(* models.App.  In a JSON object the member names im:name, im:image, ...   *)
(* are written im_name, im_image, ...  The polymorphic link member is the  *)
(* tagged JSON value [t, attributes, items]: t is "object" (attributes is  *)
(* the link's attributes object), "array" (items are attributes objects),  *)
(* "null", or "string" (any other JSON type).                              *)
(***************************************************************************)
EmptyObj == <<>>

Member(obj, key) == IF key \in DOMAIN obj THEN obj[key] ELSE EmptyObj

Str(obj, key) == IF key \in DOMAIN obj THEN obj[key] ELSE ""

LinkObject(attrs) == [t |-> "object", attributes |-> attrs, items |-> <<>>]

LinkArray(items) == [t |-> "array", attributes |-> EmptyObj, items |-> items]

LinkNull == [t |-> "null", attributes |-> EmptyObj, items |-> <<>>]

LinkString == [t |-> "string", attributes |-> EmptyObj, items |-> <<>>]

\* json.RawMessage: nil when the member is omitted.
NoRaw == [present |-> FALSE, v |-> LinkNull]

Raw(v) == [present |-> TRUE, v |-> v]

\* models.Link decoded from its attributes object.
DecodeLink(attrs) ==
    [Rel |-> Str(attrs, "rel"), Type |-> Str(attrs, "type"),
     Href |-> Str(attrs, "href")]

ZeroLink == DecodeLink(EmptyObj)

DecodeImage(obj) ==
    [Label |-> Str(obj, "label"),
     Height |-> Str(Member(obj, "attributes"), "height")]

\* Every member of App except link, as json.Unmarshal(data, aux) fills it.
\* Of each member the model keeps the value that ToAppResponse reads (the
\* label, or the attribute); im:contentType, which it never reads, and the
\* other attributes are left out of both the decoding and the encoding.
DecodeAlias(obj) ==
    [IMName        |-> Str(Member(obj, "im_name"), "label"),
     IMImages      |-> IF "im_image" \in DOMAIN obj
                       THEN Slice(MapSeq(DecodeImage, obj.im_image))
                       ELSE NilSlice,
     Summary       |-> Str(Member(obj, "summary"), "label"),
     IMPrice       |-> Str(Member(obj, "im_price"), "label"),
     Rights        |-> Str(Member(obj, "rights"), "label"),
     Title         |-> Str(Member(obj, "title"), "label"),
     LinkRaw       |-> IF "link" \in DOMAIN obj THEN Raw(obj.link) ELSE NoRaw,
     LinkSingle    |-> ZeroLink,
     LinkMulti     |-> NilSlice,
     ID            |-> Str(Member(Member(obj, "id"), "attributes"), "im_id"),
     BundleID      |-> Str(Member(Member(obj, "id"), "attributes"), "im_bundleId"),
     IMArtist      |-> Str(Member(obj, "im_artist"), "label"),
     Category      |-> Str(Member(Member(obj, "category"), "attributes"), "label"),
     IMReleaseDate |-> Str(Member(Member(obj, "im_releaseDate"), "attributes"), "label")]

\* json.Unmarshal(e.LinkRaw, &single) succeeds on an object or null.
SingleOk(raw) == raw.present /\ raw.v.t \in {"object", "null"}

\* json.Unmarshal(e.LinkRaw, &multi) succeeds on an array or null.
MultiOk(raw) == raw.present /\ raw.v.t \in {"array", "null"}

\* App.UnmarshalJSON after json.Unmarshal(data, aux) has filled e.
linkResolved(e) ==
    IF SingleOk(e.LinkRaw)
    THEN [ok |-> TRUE,
          app |-> [e EXCEPT !.LinkSingle =
                      IF e.LinkRaw.v.t = "object"
                      THEN DecodeLink(e.LinkRaw.v.attributes) ELSE ZeroLink]]
    ELSE IF MultiOk(e.LinkRaw)
    THEN [ok |-> TRUE,
          app |-> [e EXCEPT !.LinkMulti =
                      Slice(MapSeq(DecodeLink, e.LinkRaw.v.items))]]
    ELSE [ok |-> FALSE, app |-> e]

\* App.UnmarshalJSON
UnmarshalApp(obj) == linkResolved(DecodeAlias(obj))

\* json.MarshalIndent of one App: LinkSingle and LinkMulti are tagged "-",
\* and LinkRaw is written back as the raw link member (null when nil).  A
\* member written as null decodes like an omitted one and is left out.
EncodeImage(img) ==
    [label |-> img.Label, attributes |-> [height |-> img.Height]]

\* Mutant of EncodeApp: LinkRaw is not written either.
EncodeAppWithoutLink(a) ==
    (IF a.IMImages.nil THEN EmptyObj
     ELSE "im_image" :> MapSeq(EncodeImage, a.IMImages.elems)) @@
    [im_name        |-> [label |-> a.IMName],
     summary        |-> [label |-> a.Summary],
     im_price       |-> [label |-> a.IMPrice],
     rights         |-> [label |-> a.Rights],
     title          |-> [label |-> a.Title],
     id             |-> [attributes |-> [im_id |-> a.ID, im_bundleId |-> a.BundleID]],
     im_artist      |-> [label |-> a.IMArtist],
     category       |-> [attributes |-> [label |-> a.Category]],
     im_releaseDate |-> [attributes |-> [label |-> a.IMReleaseDate]]]

EncodeApp(a) ==
    (IF a.IMImages.nil THEN EmptyObj
     ELSE "im_image" :> MapSeq(EncodeImage, a.IMImages.elems)) @@
    [im_name        |-> [label |-> a.IMName],
     summary        |-> [label |-> a.Summary],
     im_price       |-> [label |-> a.IMPrice],
     rights         |-> [label |-> a.Rights],
     title          |-> [label |-> a.Title],
     link           |-> IF a.LinkRaw.present THEN a.LinkRaw.v ELSE LinkNull,
     id             |-> [attributes |-> [im_id |-> a.ID, im_bundleId |-> a.BundleID]],
     im_artist      |-> [label |-> a.IMArtist],
     category       |-> [attributes |-> [label |-> a.Category]],
     im_releaseDate |-> [attributes |-> [label |-> a.IMReleaseDate]]]

\* Mutant of firstAlternate: the last matching link wins.
RECURSIVE firstAlternateTakesLast(_)
firstAlternateTakesLast(links) ==
    IF links = <<>> THEN ""
    ELSE IF firstAlternateTakesLast(Tail(links)) # ""
         THEN firstAlternateTakesLast(Tail(links))
         ELSE IF Head(links).Rel = "alternate" /\ Head(links).Type = "text/html"
              THEN Head(links).Href
              ELSE ""

\* The first link of links with rel "alternate" and type "text/html".
RECURSIVE firstAlternate(_)
firstAlternate(links) ==
    IF links = <<>> THEN ""
    ELSE IF Head(links).Rel = "alternate" /\ Head(links).Type = "text/html"
         THEN Head(links).Href
         ELSE firstAlternate(Tail(links))

\* App.ToAppResponse
ToAppResponse(a) ==
    LET artworkURL == IF Len(a.IMImages.elems) > 0
                      THEN a.IMImages.elems[1].Label ELSE ""
        appURL == IF Len(a.LinkMulti.elems) > 0
                  THEN firstAlternate(a.LinkMulti.elems)
                  ELSE IF a.LinkSingle.Rel = "alternate"
                          /\ a.LinkSingle.Type = "text/html"
                       THEN a.LinkSingle.Href ELSE ""
    IN  [ID |-> a.ID, AppID |-> a.ID, BundleID |-> a.BundleID,
         Author |-> a.IMArtist, ReleaseDate |-> a.IMReleaseDate,
         Name |-> a.IMName, Category |-> a.Category,
         ArtworkURL |-> artworkURL, URL |-> appURL, Summary |-> a.Summary,
         Price |-> a.IMPrice, Rights |-> a.Rights, Title |-> a.Title]

\* Decoding a JSON array of catalog entries: one bad entry fails the whole.
RECURSIVE decodeApps(_, _)
\* Mutant of decodeEntry: an entry that fails to decode is skipped.
decodeEntrySkipsBad(e, rest, acc) ==
    IF ~e.ok THEN decodeApps(rest, acc)
    ELSE decodeApps(rest, Append(acc, e.app))

decodeEntry(e, rest, acc) ==
    IF ~e.ok THEN [ok |-> FALSE, apps |-> NilSlice]
    ELSE decodeApps(rest, Append(acc, e.app))

decodeApps(objs, acc) ==
    IF objs = <<>> THEN [ok |-> TRUE, apps |-> Slice(acc)]
    ELSE decodeEntry(UnmarshalApp(Head(objs)), Tail(objs), acc)

\* json.Unmarshal(body, &root) for the shapes a body can have.
DecodeRoot(body) ==
    CASE body.shape = "entries" -> decodeApps(body.entries, <<>>)
      [] body.shape \in {"nofeed", "noentry"} -> [ok |-> TRUE, apps |-> NilSlice]
      [] OTHER -> [ok |-> FALSE, apps |-> NilSlice]

(***************************************************************************)
(* The catalog cache and AppService.GetApps.                               *)
(***************************************************************************)
saveAppsToFile(apps, file, disk) ==
    saveDataToFile(MarshalSlice(EncodeApp, apps), file, disk)

\* Mutant of loadAppsFromFile: the file is looked up under another path.
loadAppsFromFileWrongPath(file) == [ok |-> FALSE, apps |-> NilSlice]

loadAppsFromFile(file) ==
    IF file.kind # "json" THEN [ok |-> FALSE, apps |-> NilSlice]
    ELSE IF file.data.null THEN [ok |-> TRUE, apps |-> NilSlice]
    ELSE decodeApps(file.data.items, <<>>)

\* appResponses := make([]*AppResponse, len(existingApps)) and its loop
convertCached(apps) == Slice(MapSeq(ToAppResponse, apps.elems))

\* Mutant of convertRootLoop: each response is put in front of the others.
RECURSIVE convertRootLoopPrepends(_, _)
convertRootLoopPrepends(apps, acc) ==
    IF apps = <<>> THEN acc
    ELSE convertRootLoopPrepends(
             Tail(apps), Slice(<<ToAppResponse(Head(apps))>> \o acc.elems))

\* The loop of convertRootToAppResponse over apps, from the accumulator acc.
RECURSIVE convertRootLoop(_, _)
convertRootLoop(apps, acc) ==
    IF apps = <<>> THEN acc
    ELSE convertRootLoop(Tail(apps), Append1(acc, ToAppResponse(Head(apps))))

convertRootToAppResponse(entries) == convertRootLoop(entries.elems, NilSlice)

AppsFailed(err, file, calls) ==
    [err |-> err, apps |-> NilSlice, file |-> file, calls |-> calls,
     saved |-> FALSE]

\* Mutant of CacheHit: an empty cached list is a hit too.
CacheHitAcceptsEmpty(existing) == existing.ok

\* Mutant of CacheHit: the length test is inverted.
CacheHitInverted(existing) == existing.ok /\ Len(existing.apps.elems) = 0

\* The cache test of GetApps: the file loaded and holds at least one app.
CacheHit(existing) == existing.ok /\ Len(existing.apps.elems) # 0

\* Mutant of appsFetched: a failure to save the cache file is returned.
appsFetchedSurfacesSaveError(entries, save) ==
    IF save.err # ""
    THEN AppsFailed("failed to write apps.json file: " \o save.err, save.file, 1)
    ELSE [err |-> "", apps |-> convertRootToAppResponse(entries),
          file |-> save.file, calls |-> 1, saved |-> TRUE]

\* The end of GetApps: the entries are mapped and returned whatever the
\* save did.
appsFetched(entries, save) ==
    [err |-> "", apps |-> convertRootToAppResponse(entries),
     file |-> save.file, calls |-> 1, saved |-> save.err = ""]

\* GetApps from the decoding of the body on.
appsDecoded(root, file, disk) ==
    IF ~root.ok
    THEN AppsFailed("failed to unmarshal JSON: " \o JsonText, file, 1)
    ELSE appsFetched(root.apps, saveAppsToFile(root.apps, file, disk))

\* GetApps from the result existing of loadAppsFromFile on.
appsLoaded(existing, up, file, disk) ==
    IF CacheHit(existing)
    THEN [err |-> "", apps |-> convertCached(existing.apps), file |-> file,
          calls |-> 0, saved |-> FALSE]
    ELSE IF up.kind = "transport_error"
    THEN AppsFailed("failed to make HTTP request: " \o TransportText, file, 1)
    ELSE IF up.status # StatusOK
    THEN AppsFailed("received non-200 status code: " \o ToString(up.status),
                    file, 1)
    ELSE IF up.body.shape = "unreadable"
    THEN AppsFailed("failed to read response body: " \o ReadText, file, 1)
    ELSE appsDecoded(DecodeRoot(up.body), file, disk)

GetApps(up, file, disk) ==
    appsLoaded(loadAppsFromFile(file), up, file, disk)

\* The outcome of AppListHandler from the result r of GetApps on.
listServed(r) ==
    [svc |-> [called |-> TRUE, hours |-> 0, calls |-> r.calls,
              now |-> T(0, 0, 0), saved |-> r.saved],
     file |-> r.file,
     response |-> IF r.err # ""
                  THEN ErrorResponse(StatusInternalServerError,
                                     "Error fetching apps: " \o r.err)
                  ELSE OkResponse(r.apps)]

\* Handlers.AppListHandler
ListOutcome(up, file, disk) == listServed(GetApps(up, file, disk))

(***************************************************************************)
(* config.LoadConfig and the http.Client that main builds from it.         *)
(***************************************************************************)
\* timeoutSecs, _ := strconv.Atoi(os.Getenv("REQUEST_TIMEOUT")): 0 when the
\* variable is unset or is not a number.
TimeoutSecsOf(env) == Atoi(env).val

\* 10000000000000000 ns, the factor of main, is 2777 h 2800 s.
TimeoutUnit == T(2777, 2800, 0)

\* time.Duration(cfg.TimeoutSecs * 10000000000000000), an int
\* multiplication.
ClientTimeout(timeoutSecs) ==
    Wrap64(T(TimeoutUnit.h * timeoutSecs
                 + (TimeoutUnit.s * timeoutSecs) \div SecPerHour,
             (TimeoutUnit.s * timeoutSecs) % SecPerHour, 0))

\* The client of main, blocked in no call.
NewClient(env) ==
    [env |-> env, TimeoutSecs |-> TimeoutSecsOf(env),
     Timeout |-> ClientTimeout(TimeoutSecsOf(env)),
     pending |-> FALSE, waited |-> T(0, 0, 0)]

\* Client.deadline: only a Timeout above zero sets a deadline.
HasDeadline(c) == TLess(T(0, 0, 0), c.Timeout)

(***************************************************************************)
(* The inputs of the model.                                                *)
(***************************************************************************)
\* The sequences of at most n distinct elements of S.
SeqsUpTo(S, n) ==
    {f \in UNION {[1..k -> S] : k \in 0..n} :
        \A i, j \in DOMAIN f : i # j => f[i] # f[j]}

\* The reference time, in hours since the epoch, and the instants of Now().
T0 == T(490000, 0, 0)

ClockPool == {TSub(T0, T(0, 0, 1)), T0}

\* A recent review; a review exactly 24 hours before T0, written with a
\* +01:00 offset; a 48 hours old review whose rating is not a number; a
\* review whose timestamp is not RFC3339; a review that omits its rating
\* and its timestamp.
RvRecent ==
    [id |-> [label |-> "1"], author |-> [name |-> [label |-> "ann"]],
     content |-> [label |-> "great"], rating |-> [label |-> <<"5">>],
     updated |-> [label |-> Stamp("rfc3339", TSub(T0, T(0, 1800, 0)), 0)]]

RvEdge ==
    [id |-> [label |-> "2"], author |-> [name |-> [label |-> "bob"]],
     content |-> [label |-> "fine"], rating |-> [label |-> <<"-", "1">>],
     updated |-> [label |-> Stamp("rfc3339", TSub(T0, T(23, 0, 0)), 60)]]

RvBadRating ==
    [id |-> [label |-> "3"], author |-> [name |-> [label |-> "cy"]],
     content |-> [label |-> "meh"], rating |-> [label |-> <<"4", ".", "5">>],
     updated |-> [label |-> Stamp("rfc3339", TSub(T0, T(48, 0, 0)), 0)]]

RvBadTime ==
    [id |-> [label |-> "4"], author |-> [name |-> [label |-> "di"]],
     content |-> [label |-> "ok"], rating |-> [label |-> <<"1", "0">>],
     updated |-> [label |-> Stamp("date", TSub(T0, T(1, 0, 0)), 0)]]

RvSparse == [id |-> [label |-> "5"], content |-> [label |-> "?"]]

ReviewPool == {RvRecent, RvEdge, RvBadRating, RvBadTime, RvSparse}

ReviewFeeds == SeqsUpTo(ReviewPool, MaxReviews)

BadBodies == {Body("garbage"), Body("unreadable"), Body("entryobject")}

EmptyBodies == {Body("nofeed"), Body("noentry")}

UpstreamFailures ==
    {TransportError, Http(404, NoBody)} \cup {Http(StatusOK, b) : b \in BadBodies}

ReviewUpstreams ==
    UpstreamFailures \cup {Http(StatusOK, b) : b \in EmptyBodies}
        \cup {Http(StatusOK, Entries(f)) : f \in ReviewFeeds}

\* The hours query parameter: omitted, and texts.
HoursPool ==
    {<<>>, <<"0">>, <<"2", "4">>, <<"a", "b", "c">>, <<"-", "1">>,
     <<"2", "5", "6", "2", "0", "4", "7">>, <<"2", "5", "6", "2", "0", "4", "8">>}

IdPool == {"", "42"}

\* An upstream that accepts the request and never answers.
Silent == [kind |-> "silent", status |-> 0, body |-> NoBody]

\* REQUEST_TIMEOUT: unset, not a number, and numbers; 923 is the first whose
\* product with the factor of main leaves int64, 1845 the first whose
\* product wraps to a positive value again.
TimeoutPool ==
    {<<>>, <<"a", "b", "c">>, <<"0">>, <<"1">>, <<"3", "0">>,
     <<"9", "2", "2">>, <<"9", "2", "3">>, <<"1", "8", "4", "5">>}

\* Catalog entries: the test fixture's shape with a single link object; an
\* entry whose link is an array with the store page second; an entry that
\* has only an id and a null link; an entry without a link member; an entry
\* whose link is a JSON string.
AltLink(href) == [rel |-> "alternate", type |-> "text/html", href |-> href]

AppSingle ==
    [id |-> [label |-> "https://apps/1",
             attributes |-> [im_id |-> "123456789", im_bundleId |-> "com.test.app1"]],
     im_name |-> [label |-> "Test App 1"],
     im_artist |-> [label |-> "Test Artist 1"],
     im_releaseDate |-> [label |-> "2023-01-01T00:00:00-07:00",
                         attributes |-> [label |-> "January 1, 2023"]],
     category |-> [attributes |-> [label |-> "Productivity"]],
     im_image |-> <<[label |-> "https://example.com/icon.png",
                     attributes |-> [height |-> "100"]]>>,
     summary |-> [label |-> "A test app"],
     im_price |-> [label |-> "Get"],
     rights |-> [label |-> "(c) 2023 Test Company"],
     title |-> [label |-> "Test App 1 - Test Artist 1"],
     link |-> LinkObject(AltLink("https://apps/1"))]

AppMulti ==
    [id |-> [attributes |-> [im_id |-> "123456790", im_bundleId |-> "com.test.app2"]],
     im_name |-> [label |-> "Test App 2"],
     im_artist |-> [label |-> "Test Artist 2"],
     im_image |-> <<[label |-> "https://example.com/small.png"],
                    [label |-> "https://example.com/large.png"]>>,
     link |-> LinkArray(<<[rel |-> "enclosure", type |-> "video/x-m4v",
                           href |-> "https://apps/2.m4v"],
                          AltLink("https://apps/2")>>)]

AppBare ==
    [id |-> [attributes |-> [im_id |-> "123456791"]], link |-> LinkNull]

AppNoLink ==
    [id |-> [attributes |-> [im_id |-> "123456792"]],
     im_name |-> [label |-> "Test App 4"]]

AppTextLink ==
    [id |-> [attributes |-> [im_id |-> "123456793"]],
     im_name |-> [label |-> "Test App 5"],
     link |-> LinkString]

AppPool == {AppSingle, AppMulti, AppBare, AppNoLink, AppTextLink}

Catalogs == SeqsUpTo(AppPool, MaxApps)

AppUpstreams ==
    UpstreamFailures \cup {Http(StatusOK, b) : b \in EmptyBodies}
        \cup {Http(StatusOK, Entries(c)) : c \in Catalogs}

\* Link values: null, one link object, and arrays of at most MaxLinks links
\* taken from two store pages, a video and a link whose relation alone
\* matches.
LinkAttrs ==
    {AltLink("https://apps/a"), AltLink("https://apps/b"),
     [rel |-> "enclosure", type |-> "video/x-m4v", href |-> "https://apps/v"],
     [rel |-> "alternate", type |-> "image/png", href |-> "https://apps/i"]}

LinkShapes ==
    {LinkNull} \cup {LinkObject(a) : a \in LinkAttrs}
        \cup {LinkArray(items) :
                  items \in UNION {[1..k -> LinkAttrs] : k \in 0..MaxLinks}}

EntryWithLink(l) ==
    [id |-> [attributes |-> [im_id |-> "123456794"]],
     im_name |-> [label |-> "Test App 6"],
     link |-> l]

LinkUpstreams == {Http(StatusOK, Entries(<<EntryWithLink(l)>>)) : l \in LinkShapes}

\* The inputs of the specification of both endpoints together: the
\* failing answers with two more non-200 answers, one of them carrying a
\* well-formed envelope, and a few feeds and catalogs.
MixedFailures ==
    UpstreamFailures \cup {Http(503, Body("nofeed")), Http(201, Entries(<<>>))}

MixedReviewUpstreams ==
    MixedFailures \cup {Http(StatusOK, b) : b \in EmptyBodies}
        \cup {Http(StatusOK, Entries(f)) :
                  f \in {<<>>, <<RvRecent>>, <<RvBadRating>>, <<RvEdge, RvBadTime>>}}

MixedAppUpstreams ==
    MixedFailures \cup {Http(StatusOK, b) : b \in EmptyBodies}
        \cup {Http(StatusOK, Entries(c)) :
                  c \in {<<>>, <<AppSingle>>, <<AppMulti, AppBare>>,
                         <<AppSingle, AppTextLink>>}}

\* What the cache file can hold when the server starts.
InitialAppsFiles ==
    {AbsentFile, CorruptFile, JsonFile(JNull), JsonFile(JArray(<<>>)),
     JsonFile(JArray(<<AppSingle>>)), JsonFile(JArray(<<AppSingle, AppNoLink>>))}

(***************************************************************************)
(* The state machine.  A request is answered in one step; Deliver hands    *)
(* the response over and the server is idle again.  The upstream and the   *)
(* clock change between requests.                                          *)
(***************************************************************************)
Idle == [kind |-> "none", id |-> "", hours |-> <<>>]

NoResponse == [status |-> 0, err |-> "", body |-> JNull]

NotPinned == [set |-> FALSE, body |-> JNull]

\* No GetApps call runs concurrently.
NoFlights == [calls |-> <<>>, bytes |-> <<>>, exists |-> FALSE,
              written |-> {}, saved |-> FALSE]

\* The AppReviews component is not mounted.
NoPage == [mounted |-> FALSE]

InitCommon ==
    /\ flights = NoFlights
    /\ page = NoPage
    /\ request = Idle
    /\ svc = NoCall
    /\ response = NoResponse
    /\ pinned = NotPinned

InitReviews ==
    /\ InitCommon
    /\ client = NewClient(<<"3", "0">>)
    /\ upApps = TransportError
    /\ upReviews \in ReviewUpstreams
    /\ clock \in ClockPool
    /\ appsFile = AbsentFile
    /\ reviewsFile = AbsentFile

InitApps ==
    /\ InitCommon
    /\ client = NewClient(<<"3", "0">>)
    /\ upApps \in AppUpstreams
    /\ upReviews = TransportError
    /\ clock = T0
    /\ appsFile \in InitialAppsFiles
    /\ reviewsFile = AbsentFile

AppReviewsHandler(appID, hoursStr, disk) ==
    /\ request.kind = "none"
    /\ \E out \in {ReviewsOutcome(appID, hoursStr, upReviews, clock,
                                   reviewsFile, disk)} :
           /\ request' = [kind |-> "reviews", id |-> appID, hours |-> hoursStr]
           /\ svc' = out.svc
           /\ response' = out.response
           /\ reviewsFile' = out.file
    /\ UNCHANGED <<upApps, upReviews, clock, appsFile, pinned, client,
                   flights, page>>

AppListHandler(disk) ==
    /\ request.kind = "none"
    /\ \E out \in {ListOutcome(upApps, appsFile, disk)} :
           /\ request' = [kind |-> "list", id |-> "", hours |-> <<>>]
           /\ svc' = out.svc
           /\ response' = out.response
           /\ appsFile' = out.file
           /\ pinned' = IF ~pinned.set /\ out.svc.calls = 1 /\ out.svc.saved
                           /\ Len(out.response.body.items) > 0
                        THEN [set |-> TRUE, body |-> out.response.body]
                        ELSE pinned
    /\ UNCHANGED <<upApps, upReviews, clock, reviewsFile, client,
                   flights, page>>

Deliver ==
    /\ request.kind # "none"
    /\ response.status # 0
    /\ request' = Idle
    /\ svc' = NoCall
    /\ response' = NoResponse
    /\ UNCHANGED <<upApps, upReviews, clock, appsFile, reviewsFile, pinned,
                   client, flights, page>>

UpstreamReviewsChange(u) ==
    /\ request.kind = "none"
    /\ u # upReviews
    /\ upReviews' = u
    /\ UNCHANGED <<request, svc, response, upApps, clock, appsFile,
                   reviewsFile, pinned, client, flights, page>>

UpstreamAppsChange(u) ==
    /\ request.kind = "none"
    /\ u # upApps
    /\ upApps' = u
    /\ UNCHANGED <<request, svc, response, upReviews, clock, appsFile,
                   reviewsFile, pinned, client, flights, page>>

Tick(t) ==
    /\ request.kind = "none"
    /\ TLess(clock, t)
    /\ clock' = t
    /\ UNCHANGED <<request, svc, response, upApps, upReviews, appsFile,
                   reviewsFile, pinned, client, flights, page>>

NextReviews ==
    \/ \E appID \in IdPool, hoursStr \in HoursPool, disk \in DiskOutcomes :
           AppReviewsHandler(appID, hoursStr, disk)
    \/ Deliver
    \/ \E u \in ReviewUpstreams : UpstreamReviewsChange(u)
    \/ \E t \in ClockPool : Tick(t)

NextApps ==
    \/ \E disk \in DiskOutcomes : AppListHandler(disk)
    \/ Deliver
    \/ \E u \in AppUpstreams : UpstreamAppsChange(u)

\* Both endpoints on one server.
Init ==
    /\ InitCommon
    /\ client = NewClient(<<"3", "0">>)
    /\ upApps \in MixedAppUpstreams
    /\ upReviews \in MixedReviewUpstreams
    /\ clock = T0
    /\ appsFile \in {AbsentFile, CorruptFile, JsonFile(JArray(<<AppSingle>>))}
    /\ reviewsFile = AbsentFile

Next ==
    \/ \E appID \in IdPool, hoursStr \in HoursPool, disk \in DiskOutcomes :
           AppReviewsHandler(appID, hoursStr, disk)
    \/ \E disk \in DiskOutcomes : AppListHandler(disk)
    \/ Deliver
    \/ \E u \in MixedReviewUpstreams : UpstreamReviewsChange(u)
    \/ \E u \in MixedAppUpstreams : UpstreamAppsChange(u)

Spec == Init /\ [][Next]_vars

SpecReviews == InitReviews /\ [][NextReviews]_vars

SpecApps == InitApps /\ [][NextApps]_vars

\* /app/list over catalogs of one entry whose link takes every shape.
InitLinks ==
    /\ InitCommon
    /\ client = NewClient(<<"3", "0">>)
    /\ upApps \in LinkUpstreams
    /\ upReviews = TransportError
    /\ clock = T0
    /\ appsFile = AbsentFile
    /\ reviewsFile = AbsentFile

NextLinks ==
    \/ \E disk \in DiskOutcomes : AppListHandler(disk)
    \/ Deliver
    \/ \E u \in LinkUpstreams : UpstreamAppsChange(u)

SpecLinks == InitLinks /\ [][NextLinks]_vars

(***************************************************************************)
(* The server in front of an upstream that never answers.  A handler that  *)
(* reaches Client.Get blocks in it; the call returns only when the         *)
(* client's deadline fires.  client.waited is the time spent in the call;  *)
(* clock stays the time at which the request arrived.                      *)
(***************************************************************************)
InitTimeout ==
    /\ InitCommon
    /\ client \in {NewClient(env) : env \in TimeoutPool}
    /\ upApps = Silent
    /\ upReviews = Silent
    /\ clock = T0
    /\ appsFile = AbsentFile
    /\ reviewsFile = AbsentFile

\* AppListHandler up to s.Client.Get of GetApps, on a cache miss.
ListCallBlocks ==
    /\ request.kind = "none"
    /\ upApps = Silent
    /\ ~CacheHit(loadAppsFromFile(appsFile))
    /\ request' = [kind |-> "list", id |-> "", hours |-> <<>>]
    /\ svc' = [called |-> TRUE, hours |-> 0, calls |-> 1, now |-> T(0, 0, 0),
               saved |-> FALSE]
    /\ client' = [client EXCEPT !.pending = TRUE, !.waited = T(0, 0, 0)]
    /\ UNCHANGED <<response, upApps, upReviews, clock, appsFile, reviewsFile,
                   pinned, flights, page>>

\* The requests that AppReviewsHandler answers 400 before any call.
RejectedInput(appID, hoursStr) ==
    appID = "" \/ ~ParseHours(hoursStr).ok \/ ParseHours(hoursStr).val < 0

\* AppReviewsHandler up to s.Client.Get of GetAppReviewsFromApi.
ReviewsCallBlocks(appID, hoursStr) ==
    /\ request.kind = "none"
    /\ upReviews = Silent
    /\ ~RejectedInput(appID, hoursStr)
    /\ request' = [kind |-> "reviews", id |-> appID, hours |-> hoursStr]
    /\ svc' = [called |-> TRUE, hours |-> ParseHours(hoursStr).val,
               calls |-> 1, now |-> T(0, 0, 0), saved |-> FALSE]
    /\ client' = [client EXCEPT !.pending = TRUE, !.waited = T(0, 0, 0)]
    /\ UNCHANGED <<response, upApps, upReviews, clock, appsFile, reviewsFile,
                   pinned, flights, page>>

\* The lengths of time that may pass while the call is pending: a second,
\* for the first MaxWait seconds, and the time left to the deadline.
WaitSteps(c) ==
    (IF TLess(c.waited, T(0, MaxWait, 0)) THEN {T(0, 1, 0)} ELSE {})
        \cup (IF HasDeadline(c) /\ TLess(c.waited, c.Timeout)
              THEN {TSub(c.Timeout, c.waited)} ELSE {})

\* Time passes while the call is pending, never past the deadline.
TimePasses(d) ==
    /\ client.pending
    /\ HasDeadline(client) => ~TLess(client.Timeout, TAdd(client.waited, d))
    /\ client' = [client EXCEPT !.waited = TAdd(client.waited, d)]
    /\ UNCHANGED <<request, svc, response, upApps, upReviews, clock, appsFile,
                   reviewsFile, pinned, flights, page>>

\* The deadline fires: Client.Get returns an error and the handler goes on
\* as for any failure of the request.
TimeoutFires ==
    /\ client.pending
    /\ HasDeadline(client)
    /\ ~TLess(client.waited, client.Timeout)
    /\ \E out \in {IF request.kind = "list"
                    THEN ListOutcome(TransportError, appsFile, "ok")
                    ELSE ReviewsOutcome(request.id, request.hours,
                                        TransportError, clock, reviewsFile,
                                        "ok")} :
           /\ svc' = out.svc
           /\ response' = out.response
    /\ client' = [client EXCEPT !.pending = FALSE]
    /\ UNCHANGED <<request, upApps, upReviews, clock, appsFile, reviewsFile,
                   pinned, flights, page>>

NextTimeout ==
    \/ ListCallBlocks
    \/ \E appID \in IdPool, hoursStr \in HoursPool :
           ReviewsCallBlocks(appID, hoursStr)
    \/ \E appID \in IdPool, hoursStr \in HoursPool :
           RejectedInput(appID, hoursStr)
               /\ AppReviewsHandler(appID, hoursStr, "ok")
    \/ \E d \in WaitSteps(client) : TimePasses(d)
    \/ TimeoutFires
    \/ Deliver

\* Time does not stop and a deadline that is due fires.
SpecTimeout ==
    /\ InitTimeout
    /\ [][NextTimeout]_vars
    /\ WF_vars(\E d \in WaitSteps(client) : TimePasses(d))
    /\ WF_vars(TimeoutFires)
    /\ WF_vars(Deliver)

(***************************************************************************)
(* Properties of /app/reviews, checked under SpecReviews.  In a state      *)
(* where a review request has been answered, upReviews and clock are still *)
(* the upstream answer and the time that request saw.                      *)
(***************************************************************************)
Answered(kind) == request.kind = kind /\ response.status # 0

\* The upstream call of the answered request returned 200 and decoded.
Fetched ==
    /\ upReviews.kind = "http"
    /\ upReviews.status = StatusOK
    /\ upReviews.body.shape \in {"entries", "nofeed", "noentry"}

\* The reviews of the upstream feed, in upstream order.
FeedReviews == MapSeq(DecodeReview, upReviews.body.entries)

IntegerText(s) ==
    LET body == IF s # <<>> /\ s[1] \in {"+", "-"} THEN Tail(s) ELSE s
    IN  /\ body # <<>>
        /\ \A i \in DOMAIN body :
               body[i] \in {"0", "1", "2", "3", "4", "5", "6", "7", "8", "9"}

ParsesAsTime(label) == label.layout = "rfc3339"

ResponseOf(r) ==
    [ID |-> r.ID, Content |-> r.Content, Author |-> r.Author,
     Score |-> Atoi(r.Rating).val, Time |-> r.Timestamp]

\* T minus H hours, as a mathematical instant.
WindowStart(now, hours) == TSub(now, T(hours, 0, 0))

StrictlyInWindow(r) ==
    /\ ParsesAsTime(r.Timestamp)
    /\ TLess(WindowStart(svc.now, svc.hours), ParseRFC3339(r.Timestamp).t)

\* C1: for a window H > 0 at time T, a successful GetReviews returns, in
\* upstream order, exactly the reviews whose RFC3339 timestamp is strictly
\* after T minus H hours.
C1_WindowIsExact ==
    (Answered("reviews") /\ svc.called /\ svc.hours > 0
        /\ response.status = StatusOK)
    => response.body.items
         = MapSeq(ResponseOf, SelectSeq(FeedReviews, StrictlyInWindow))

\* C2 as stated: a review whose timestamp does not parse as RFC3339 is in
\* no result of GetReviews, whatever the window, window 0 included.
C2_UnparseableNeverReturned ==
    (Answered("reviews") /\ response.status = StatusOK)
    => \A i \in DOMAIN response.body.items :
           ParsesAsTime(response.body.items[i].Time)

UnparseableReviews ==
    SelectSeq(FeedReviews, LAMBDA r : ~ParsesAsTime(r.Timestamp))

\* C2 amended: a review whose timestamp does not parse as RFC3339 is in no
\* result of GetReviews with a window H > 0; with window 0 (or hours
\* omitted) no timestamp is parsed and every such review is returned.
C2_UnparseableDroppedByFilterOnly ==
    (Answered("reviews") /\ svc.called /\ response.status = StatusOK)
    => IF svc.hours > 0
       THEN \A i \in DOMAIN response.body.items :
                ParsesAsTime(response.body.items[i].Time)
       ELSE SelectSeq(response.body.items, LAMBDA x : ~ParsesAsTime(x.Time))
              = MapSeq(ResponseOf, UnparseableReviews)

C2_Witness ==
    /\ Answered("reviews") /\ response.status = StatusOK
    /\ svc.hours = 24
    /\ UnparseableReviews # <<>>
    /\ response.body.items # <<>>

HasBadRating(reviews) ==
    \E i \in DOMAIN reviews : ~IntegerText(reviews[i].Rating)

\* C3 as stated: when any review of the upstream feed has a rating that is
\* not a base-10 integer the request fails with 500, for every window and
\* even when the window or an unparseable timestamp excludes that review.
C3_AnyBadRatingFails ==
    (Answered("reviews") /\ svc.called /\ Fetched /\ HasBadRating(FeedReviews))
    => /\ response.status = StatusInternalServerError
       /\ response.body = JNull

\* The reviews that reach the conversion: all of them for window 0, and for
\* H > 0 those whose timestamp parses and is after the cutoff GetReviews
\* computed.
Survivors ==
    IF svc.hours = 0 THEN FeedReviews
    ELSE SelectSeq(FeedReviews,
                   LAMBDA r : /\ ParsesAsTime(r.Timestamp)
                              /\ TLess(TAdd(svc.now, WindowDuration(svc.hours)),
                                       ParseRFC3339(r.Timestamp).t))

\* C3 amended: the request fails as a whole (500, no reviews) exactly when
\* a review with a non-integer rating reaches the conversion, wherever it
\* sits in the feed: any such review for window 0, and for H > 0 only one
\* that survives the recency filter; a bad rating on a review that the
\* window or an unparseable timestamp excludes does not fail the request.
C3_SurvivingBadRatingFails ==
    (Answered("reviews") /\ svc.called /\ Fetched)
    => IF HasBadRating(Survivors)
       THEN /\ response.status = StatusInternalServerError
            /\ response.err = "Error fetching reviews: failed to convert "
                                 \o "rating to integer: invalid syntax"
            /\ response.body = JNull
       ELSE /\ response.status = StatusOK
            /\ Len(response.body.items) = Len(Survivors)

C3_Witness ==
    /\ Answered("reviews") /\ svc.called /\ Fetched
    /\ svc.hours > 0
    /\ Len(Survivors) = 2
    /\ ~IntegerText(Survivors[2].Rating)
    /\ response.status = StatusInternalServerError

\* C4: with hours omitted or "0" the handler calls GetReviews with window
\* 0, which filters nothing: a successful answer has one ReviewResponse per
\* review of the upstream feed, in upstream order, and the answer is
\* successful whenever the fetch succeeded and every rating is an integer.
C4_WindowZeroReturnsAll ==
    (Answered("reviews") /\ request.id # ""
        /\ request.hours \in {<<>>, <<"0">>})
    => /\ svc.called /\ svc.hours = 0
       /\ (Fetched /\ ~HasBadRating(FeedReviews))
              => response.status = StatusOK
       /\ response.status = StatusOK
              => /\ Fetched
                 /\ Len(response.body.items) = Len(FeedReviews)
                 /\ response.body.items = MapSeq(ResponseOf, FeedReviews)

C4_Witness ==
    /\ Answered("reviews") /\ request.hours = <<>> /\ svc.called
    /\ response.status = StatusOK
    /\ Len(response.body.items) = 2
    /\ response.body.items[1].ID = "4"
    /\ response.body.items[2].ID = "2"

\* C10: /app/reviews answers 400 without calling the service when id is
\* missing or empty, when hours is present and not an integer, and when
\* hours is a negative integer; any other request reaches GetReviews with
\* the parsed hours, 0 when hours is omitted.
C10_BadRequests ==
    Answered("reviews")
    => IF \/ request.id = ""
          \/ request.hours # <<>> /\ ~IntegerText(request.hours)
          \/ request.hours # <<>> /\ IntegerText(request.hours)
                /\ request.hours[1] = "-" /\ DigitsVal(Tail(request.hours)) > 0
       THEN /\ response.status = StatusBadRequest
            /\ ~svc.called /\ svc.calls = 0
       ELSE /\ svc.called /\ svc.calls = 1
            /\ response.status # StatusBadRequest
            /\ svc.hours = IF request.hours = <<>> THEN 0
                           ELSE Atoi(request.hours).val

C10_Witness ==
    /\ Answered("reviews") /\ request.id # "" /\ request.hours = <<"-", "1">>
    /\ response.status = StatusBadRequest /\ ~svc.called

(***************************************************************************)
(* Properties of /app/list, checked under SpecApps.  In a state where a    *)
(* list request has been answered, upApps is still the upstream answer     *)
(* that request saw (had it asked).                                        *)
(***************************************************************************)
\* A link member that decodes: an object, an array of objects, or null.
LinkDecodes(obj) ==
    "link" \in DOMAIN obj /\ obj.link.t \in {"object", "array", "null"}

\* The file exists and decodes to a non-empty list of entries.
NonEmptySnapshot(file) ==
    /\ file.kind = "json"
    /\ ~file.data.null
    /\ file.data.items # <<>>
    /\ \A i \in DOMAIN file.data.items : LinkDecodes(file.data.items[i])

\* The mapped entries of a list of JSON catalog entries.
MappedEntries(objs) ==
    [i \in DOMAIN objs |-> ToAppResponse(UnmarshalApp(objs[i]).app)]

\* The step in which a /app/list request is answered.
ListStep == request.kind = "none" /\ request'.kind = "list"

\* The upstream answers 200 with a catalog whose entries all decode.
ValidCatalog(up) ==
    /\ up.kind = "http" /\ up.status = StatusOK
    /\ up.body.shape = "entries"
    /\ \A i \in DOMAIN up.body.entries : LinkDecodes(up.body.entries[i])

\* C5: when the cache file exists and decodes to a non-empty list, GetApps
\* returns the mapped cached entries, makes no upstream request (so it
\* succeeds whatever the upstream would answer) and leaves the file as is.
C5_CacheHitServesFile ==
    [][(ListStep /\ NonEmptySnapshot(appsFile))
       => /\ response'.status = StatusOK
          /\ response'.body = JArray(MappedEntries(appsFile.data.items))
          /\ svc'.calls = 0
          /\ appsFile' = appsFile]_vars

C5_Witness ==
    /\ Answered("list") /\ response.status = StatusOK
    /\ svc.calls = 0
    /\ ~pinned.set
    /\ upApps = Http(404, NoBody)
    /\ response.body.items # <<>>

\* C6: once a GetApps call has fetched a non-empty catalog from upstream
\* and saved it, every later GetApps call returns that same catalog and
\* makes no upstream request, whatever the upstream answers afterwards.
C6_LoadOnceNeverInvalidated ==
    [][(ListStep /\ pinned.set)
       => /\ response'.status = StatusOK
          /\ response'.body = pinned.body
          /\ svc'.calls = 0
          /\ pinned' = pinned]_vars

C6_Witness ==
    /\ Answered("list") /\ pinned.set
    /\ svc.calls = 0
    /\ response.body = pinned.body
    /\ ValidCatalog(upApps)
    /\ upApps.body.entries # <<>>
    /\ JArray(MappedEntries(upApps.body.entries)) # pinned.body

\* C7: on a cache miss or a cache load/decode error, GetApps fetches the
\* catalog and returns the mapped upstream entries; a failure to save the
\* cache file changes neither the entries returned nor the success of the
\* call, and after a successful save the cache file holds exactly the
\* fetched entries, whatever it held before.
C7_MissFetchesAndSavesBestEffort ==
    [][(ListStep /\ ~NonEmptySnapshot(appsFile) /\ ValidCatalog(upApps))
       => /\ svc'.calls = 1
          /\ response'.status = StatusOK
          /\ response'.body.items = MappedEntries(upApps.body.entries)
          /\ IF svc'.saved
             THEN /\ appsFile'.kind = "json"
                  /\ loadAppsFromFile(appsFile') = DecodeRoot(upApps.body)
             ELSE appsFile' \in {appsFile, CorruptFile}]_vars

C7_Witness ==
    /\ Answered("list") /\ svc.calls = 1 /\ ~svc.saved
    /\ response.status = StatusOK
    /\ Len(response.body.items) = 2
    /\ appsFile = CorruptFile

\* C8: the cache round trip.  After saveAppsToFile has written the N
\* entries decoded from upstream, loadAppsFromFile on that file yields N
\* entries in the same order whose mapped AppResponse values equal those of
\* the original entries, so the response served from the cache equals the
\* response of the fetch that populated it.
C8_CacheRoundTrip ==
    (Answered("list") /\ svc.saved)
    => LET orig == DecodeRoot(upApps.body).apps.elems
           back == loadAppsFromFile(appsFile)
       IN  /\ back.ok
           /\ Len(back.apps.elems) = Len(orig)
           /\ \A i \in DOMAIN orig :
                  ToAppResponse(back.apps.elems[i]) = ToAppResponse(orig[i])
           /\ orig # <<>>
                => EncodeBody(GetApps(TransportError, appsFile, "ok").apps)
                     = response.body

C8_Witness ==
    /\ Answered("list") /\ svc.saved
    /\ upApps.body.entries = <<AppMulti, AppSingle>>
    /\ Len(loadAppsFromFile(appsFile).apps.elems) = 2

\* C9: for every valid catalog payload with N entries, GetApps on a cache
\* miss returns exactly N AppResponse records in upstream order, the i-th
\* being the mapping of the i-th upstream entry.
C9_OneResponsePerEntryInOrder ==
    (Answered("list") /\ svc.calls = 1 /\ ValidCatalog(upApps))
    => /\ response.status = StatusOK
       /\ Len(response.body.items) = Len(upApps.body.entries)
       /\ \A i \in DOMAIN upApps.body.entries :
              response.body.items[i]
                = ToAppResponse(UnmarshalApp(upApps.body.entries[i]).app)

C9_Witness ==
    /\ Answered("list") /\ svc.calls = 1 /\ ValidCatalog(upApps)
    /\ Len(response.body.items) = 2
    /\ response.body.items[1].Name = "Test App 2"
    /\ response.body.items[1].URL = "https://apps/2"
    /\ response.body.items[2].AppID = "123456791"

(***************************************************************************)
(* Properties of both endpoints, checked under Spec.                       *)
(***************************************************************************)
\* The step in which a /app/reviews request is answered.
ReviewsStep == request.kind = "none" /\ request'.kind = "reviews"

\* The upstream fails in transport or answers a status other than 200.
UpstreamFailed(up) == up.kind = "transport_error" \/ up.status # StatusOK

\* C11: when the upstream call fails in transport or answers a status other
\* than 200, GetReviews, and GetApps on a cache miss, return an error and
\* no data, the handler answers 500, and for a non-200 status the error of
\* GetApps reads "received non-200 status code: <status>".
C11_UpstreamFailureIs500 ==
    [][/\ (ReviewsStep /\ svc'.called /\ UpstreamFailed(upReviews))
            => /\ response'.status = StatusInternalServerError
               /\ response'.body = JNull
               /\ response'.err # ""
       /\ (ListStep /\ ~NonEmptySnapshot(appsFile) /\ UpstreamFailed(upApps))
            => /\ response'.status = StatusInternalServerError
               /\ response'.body = JNull
               /\ upApps.kind = "http"
                    => response'.err
                         = "Error fetching apps: received non-200 status code: "
                             \o ToString(upApps.status)]_vars

C11_Witness ==
    /\ Answered("list") /\ svc.calls = 1
    /\ upApps = Http(503, Body("nofeed"))
    /\ response.status = StatusInternalServerError
    /\ response.err = "Error fetching apps: received non-200 status code: 503"

\* The upstream answers 200 with a readable body that is not the feed/entry
\* envelope: not JSON, "entry" of the wrong type, or no "feed" or no
\* "entry" member.
EnvelopeMismatch(up) ==
    /\ up.kind = "http" /\ up.status = StatusOK
    /\ up.body.shape \in {"garbage", "entryobject", "nofeed", "noentry"}

\* C12: a catalog or review payload whose top-level shape is not the
\* feed/entry envelope, a missing "feed" or "entry" member included, fails
\* to decode and the request is answered 500; it is never accepted as an
\* empty list.
C12_EnvelopeMismatchIs500 ==
    /\ (Answered("reviews") /\ svc.called /\ EnvelopeMismatch(upReviews))
         => response.status = StatusInternalServerError
    /\ (Answered("list") /\ svc.calls = 1 /\ EnvelopeMismatch(upApps))
         => response.status = StatusInternalServerError

\* C13: every 200 answer of /app/list and /app/reviews carries a JSON
\* array; when no review survives the filter, or the upstream feed has no
\* entries, the body is the empty array and not null.
C13_OkBodyIsArray ==
    (request.kind \in {"list", "reviews"} /\ response.status = StatusOK)
    => ~response.body.null

(***************************************************************************)
(* Properties of the upstream timeout, checked under SpecTimeout.          *)
(***************************************************************************)
\* REQUEST_TIMEOUT seconds as a duration.
ConfiguredTimeout(c) ==
    T(c.TimeoutSecs \div SecPerHour, c.TimeoutSecs % SecPerHour, 0)

\* A call in flight has not waited longer than REQUEST_TIMEOUT seconds.
WaitsAtMostTimeout ==
    client.pending => ~TLess(ConfiguredTimeout(client), client.waited)

\* C14: every request terminates: when the upstream never responds, the
\* client's timeout of REQUEST_TIMEOUT seconds ends the call with an error,
\* for every configured value, an unset or unparseable one (read as 0) and
\* large ones included, so no request waits longer than that.
C14_RequestEndsAtTimeout ==
    /\ []WaitsAtMostTimeout
    /\ (request.kind # "none") ~> (response.status # 0)

\* C15: no retries.  A request makes at most one upstream GET: exactly one
\* for every GetReviews call and for GetApps on a cache miss, none for
\* GetApps on a cache hit and for a request answered 400; and a failed
\* upstream call is reported at once as an error.
C15_AtMostOneUpstreamCall ==
    [][/\ ReviewsStep
            => /\ svc'.calls = IF svc'.called THEN 1 ELSE 0
               /\ response'.status = StatusBadRequest => svc'.calls = 0
               /\ (svc'.called /\ UpstreamFailed(upReviews))
                    => response'.status = StatusInternalServerError
       /\ ListStep
            => /\ svc'.calls = IF NonEmptySnapshot(appsFile) THEN 0 ELSE 1
               /\ (svc'.calls = 1 /\ UpstreamFailed(upApps))
                    => response'.status = StatusInternalServerError]_vars

C15_Witness ==
    /\ Answered("reviews") /\ svc.called /\ svc.calls = 1
    /\ upReviews = TransportError
    /\ response.status = StatusInternalServerError

\* The step in which a request of either kind is answered.
AnswerStep == ListStep \/ ReviewsStep

\* The answer of the step is an error.
EndsInError == response'.status \in {StatusBadRequest, StatusInternalServerError}

\* The text of the answer to a request whose rating conversion failed.
ConversionFailure ==
    "Error fetching reviews: failed to convert rating to integer: "
        \o SyntaxText

\* Whatever the upstreams answer next, the next request of either kind gets
\* the same response from the files after the step as from those before it.
LaterResponsesUnaffected ==
    \/ <<appsFile', reviewsFile'>> = <<appsFile, reviewsFile>>
    \/ /\ \A u \in MixedReviewUpstreams, appID \in IdPool,
             hoursStr \in HoursPool, disk \in DiskOutcomes :
               ReviewsOutcome(appID, hoursStr, u, clock, reviewsFile', disk).response
                 = ReviewsOutcome(appID, hoursStr, u, clock, reviewsFile, disk).response
       /\ \A u \in MixedAppUpstreams, disk \in DiskOutcomes :
               ListOutcome(u, appsFile', disk).response
                 = ListOutcome(u, appsFile, disk).response

\* C16 as stated: a request that ends in an error (400, transport failure,
\* non-200 status, decode failure or rating conversion failure) leaves the
\* catalog cache file and the review file unchanged, and every later request
\* has the outcome it would have had without the failed request.
C16_FailedRequestChangesNothing ==
    [][(AnswerStep /\ EndsInError)
       => /\ appsFile' = appsFile
          /\ reviewsFile' = reviewsFile
          /\ LaterResponsesUnaffected]_vars

\* C16 amended: a request that ends in 400, a transport failure, a non-200
\* status or a decode failure leaves the catalog cache file and the review
\* file unchanged; one that ends in a rating conversion failure leaves the
\* catalog cache file unchanged but has already written the entries it
\* fetched to the review file (or, the write failing, left the file as it
\* was or truncated); in every case every later request gets the response
\* it would have got without the failed request.
C16_OnlyConversionFailureWrites ==
    [][(AnswerStep /\ EndsInError)
       => /\ appsFile' = appsFile
          /\ IF response'.err = ConversionFailure
             THEN IF svc'.saved
                  THEN reviewsFile'
                         = JsonFile(MarshalSlice(EncodeReview,
                               DecodeReviewFeed(upReviews.body).entries))
                  ELSE reviewsFile' \in {reviewsFile, CorruptFile}
             ELSE reviewsFile' = reviewsFile
          /\ LaterResponsesUnaffected]_vars

C16_Witness ==
    /\ Answered("reviews")
    /\ response.status = StatusInternalServerError
    /\ response.err = ConversionFailure
    /\ svc.saved
    /\ reviewsFile.kind = "json" /\ Len(reviewsFile.data.items) = 1

\* Contents the review storage file could have instead of its own.
OtherReviewFiles ==
    {AbsentFile, CorruptFile, JsonFile(JNull),
     JsonFile(JArray(<<RvRecent, RvEdge>>))}

\* C17: reviews are always served fresh.  The answer to a review request is
\* a function of the request, the upstream answer and the current time
\* only: with any other content of the review storage file, or none, and
\* whatever the catalog cache file holds, the answer is the same.
C17_ReviewsIgnoreFiles ==
    [][ReviewsStep
       => \A file \in OtherReviewFiles, disk \in DiskOutcomes :
              ReviewsOutcome(request'.id, request'.hours, upReviews, clock,
                             file, disk).response = response']_vars

C17_Witness ==
    /\ Answered("reviews") /\ response.status = StatusOK
    /\ ~svc.saved
    /\ reviewsFile.kind = "json"
    /\ Len(reviewsFile.data.items) = 1
    /\ Len(response.body.items) = 2
    /\ appsFile.kind = "json"

(***************************************************************************)
(* Properties of the review storage file, checked under SpecReviews.       *)
(***************************************************************************)
\* The file holds the complete entry list of the upstream feed.
HoldsFeed(file) ==
    file.kind = "json" /\ file.data.items = MapSeq(EncodeReview, FeedReviews)

\* The answer of the step is the one a successful write would have given.
WriteDoesNotChangeAnswer ==
    response' = ReviewsOutcome(request'.id, request'.hours, upReviews, clock,
                               reviewsFile, "ok").response

\* C18 as stated: after any sequential run of review requests the review
\* storage file holds the complete, unfiltered entry list of the most
\* recent request whose upstream fetch returned 200 and decoded, whatever
\* its app id and hours; a failure to write the file does not change the
\* request's result.
C18_FileHoldsLastFetch ==
    [][IF ReviewsStep
       THEN /\ IF svc'.called /\ Fetched
               THEN HoldsFeed(reviewsFile')
               ELSE reviewsFile' = reviewsFile
            /\ WriteDoesNotChangeAnswer
       ELSE reviewsFile' = reviewsFile]_vars

\* C18 amended: a review request whose upstream fetch returned 200 and
\* decoded overwrites the review storage file with its complete, unfiltered
\* entry list, whatever its app id and hours, when the write succeeds; when
\* the write fails the file is left as it was or truncated; no other
\* request touches the file; and a failure to write the file does not
\* change the request's result.
C18_FileHoldsLastWrittenFetch ==
    [][IF ReviewsStep
       THEN /\ IF svc'.called /\ Fetched
               THEN IF svc'.saved THEN HoldsFeed(reviewsFile')
                    ELSE reviewsFile' \in {reviewsFile, CorruptFile}
               ELSE reviewsFile' = reviewsFile
            /\ WriteDoesNotChangeAnswer
       ELSE reviewsFile' = reviewsFile]_vars

C18_Witness ==
    /\ Answered("reviews") /\ svc.saved
    /\ request.hours = <<"2", "4">>
    /\ response.status = StatusOK
    /\ Len(response.body.items) = 1
    /\ Len(reviewsFile.data.items) = 2
    /\ HoldsFeed(reviewsFile)

(***************************************************************************)
(* Properties of the link resolution, checked under SpecLinks.             *)
(***************************************************************************)
\* The catalog entries that the answered /app/list request served: those of
\* the upstream when it asked, those of the cache file otherwise.
ServedEntries ==
    IF svc.calls = 1 THEN upApps.body.entries ELSE appsFile.data.items

\* The positions of the links with rel "alternate" and type "text/html".
Matching(items) ==
    {i \in DOMAIN items :
        Str(items[i], "rel") = "alternate" /\ Str(items[i], "type") = "text/html"}

\* The canonical URL of a list of links: the href of the first match.
CanonicalURL(items) ==
    IF Matching(items) = {} THEN ""
    ELSE Str(items[CHOOSE i \in Matching(items) :
                       \A j \in Matching(items) : i <= j], "href")

\* The URL the code gives the entry obj.
URLOf(obj) == ToAppResponse(UnmarshalApp(obj).app).URL

\* C19: link resolution does not depend on the shape.  An entry whose link
\* is a single object and the entry whose link is the one-element array of
\* that object get the same URL; for an array the URL is the href of the
\* first link with rel "alternate" and type "text/html", and the empty
\* string when no link matches or the array is empty.
C19_LinkShapeIndependent ==
    (Answered("list") /\ response.status = StatusOK)
    => \A i \in DOMAIN response.body.items :
           LET e == ServedEntries[i]
           IN  CASE e.link.t = "array" ->
                        response.body.items[i].URL = CanonicalURL(e.link.items)
                 [] e.link.t = "object" ->
                        /\ response.body.items[i].URL
                             = URLOf([e EXCEPT !.link =
                                         LinkArray(<<e.link.attributes>>)])
                        /\ response.body.items[i].URL
                             = CanonicalURL(<<e.link.attributes>>)
                 [] OTHER -> response.body.items[i].URL = ""

C19_Witness ==
    /\ Answered("list") /\ response.status = StatusOK
    /\ Len(response.body.items) = 1
    /\ ServedEntries[1].link.t = "array"
    /\ Len(ServedEntries[1].link.items) = 2
    /\ Matching(ServedEntries[1].link.items) = {1, 2}
    /\ response.body.items[1].URL = "https://apps/b"

(***************************************************************************)
(* Properties of the catalog decoding, checked under SpecApps.             *)
(***************************************************************************)
\* Some entry of objs has a link that decodes neither as one object nor as
\* an array of objects.
HasBadLink(objs) == \E i \in DOMAIN objs : ~LinkDecodes(objs[i])

\* C20: an entry whose link decodes neither as a single object nor as an
\* array of objects is a decode failure, and one such entry fails the
\* decoding of the whole catalog instead of being skipped: of the upstream
\* payload, and GetApps returns an error; of the cache file, and GetApps
\* treats the file as unreadable and fetches from the upstream.
C20_BadLinkFailsWholeCatalog ==
    [][ListStep
       => /\ (appsFile.kind = "json" /\ HasBadLink(appsFile.data.items))
               => /\ svc'.calls = 1
                  /\ response' = ListOutcome(upApps, CorruptFile, "untouched").response
          /\ (svc'.calls = 1 /\ upApps.kind = "http" /\ upApps.status = StatusOK
                /\ upApps.body.shape = "entries"
                /\ HasBadLink(upApps.body.entries))
               => /\ response'.status = StatusInternalServerError
                  /\ response'.body = JNull
                  /\ appsFile' = appsFile]_vars

C20_Witness ==
    /\ Answered("list") /\ svc.calls = 1
    /\ appsFile = JsonFile(JArray(<<AppSingle, AppNoLink>>))
    /\ upApps.body.entries = <<AppSingle, AppTextLink>>
    /\ response.status = StatusInternalServerError

(***************************************************************************)
(* Properties of the decoding of entries that omit members.                *)
(***************************************************************************)
\* Every link member that the entries carry is an object, an array of
\* objects or null: the entries at most omit members.
AtMostOmits(objs) ==
    \A i \in DOMAIN objs :
        "link" \in DOMAIN objs[i] => objs[i].link.t \in {"object", "array", "null"}

\* Every rating that the review entries carry is a base-10 integer.
RatingsPresentAreIntegers(objs) ==
    \A i \in DOMAIN objs :
        ("rating" \in DOMAIN objs[i] /\ "label" \in DOMAIN objs[i].rating)
            => IntegerText(objs[i].rating.label)

\* C21: decoding is permissive about omitted fields.  A catalog entry or a
\* review entry of the upstream payload that omits members, or the inner
\* label or attribute of a wrapper, decodes without error, and each omitted
\* value is the empty string in the mapped response (no images: an empty
\* artwork URL).
C21_OmittedFieldsDecode ==
    /\ (Answered("list") /\ svc.calls = 1 /\ upApps.kind = "http"
          /\ upApps.status = StatusOK /\ upApps.body.shape = "entries"
          /\ AtMostOmits(upApps.body.entries))
         => /\ response.status = StatusOK
            /\ Len(response.body.items) = Len(upApps.body.entries)
            /\ \A i \in DOMAIN response.body.items :
                   LET e == upApps.body.entries[i]
                       r == response.body.items[i]
                   IN  /\ "im_name" \notin DOMAIN e => r.Name = ""
                       /\ "im_image" \notin DOMAIN e => r.ArtworkURL = ""
                       /\ "summary" \notin DOMAIN e => r.Summary = ""
                       /\ "link" \notin DOMAIN e => r.URL = ""
    /\ (Answered("reviews") /\ svc.called /\ svc.hours = 0 /\ Fetched
          /\ RatingsPresentAreIntegers(upReviews.body.entries))
         => /\ response.status = StatusOK
            /\ \A i \in DOMAIN response.body.items :
                   "author" \notin DOMAIN upReviews.body.entries[i]
                       => response.body.items[i].Author = ""

(***************************************************************************)
(* Properties of Review.ToReviewResponse, checked under SpecReviews on the *)
(* reviews of every upstream feed.                                         *)
(***************************************************************************)
\* The number that a text of decimal digits writes.
RECURSIVE Pow10(_)
Pow10(k) == IF k = 0 THEN 1 ELSE 10 * Pow10(k - 1)

RECURSIVE DigitsNumber(_)
DigitsNumber(s) ==
    IF s = <<>> THEN 0
    ELSE (CHOOSE d \in 0..9 : ToString(d) = s[1]) * Pow10(Len(s) - 1)
             + DigitsNumber(Tail(s))

\* The integer that an integer text writes.
IntegerValue(s) ==
    IF s[1] = "-" THEN -DigitsNumber(Tail(s))
    ELSE IF s[1] = "+" THEN DigitsNumber(Tail(s))
    ELSE DigitsNumber(s)

\* ToReviewResponse on review r does what C22 says.
ConvertsAsClaimed(r) ==
    IF IntegerText(r.Rating)
    THEN /\ ToReviewResponse(r).ok
         /\ ToReviewResponse(r).err = ""
         /\ ToReviewResponse(r).val
              = [ID |-> r.ID, Content |-> r.Content, Author |-> r.Author,
                 Score |-> IntegerValue(r.Rating), Time |-> r.Timestamp]
    ELSE /\ ~ToReviewResponse(r).ok
         /\ ToReviewResponse(r).err # ""
         /\ ToReviewResponse(r).val = <<>>

\* C22: ToReviewResponse succeeds exactly when the rating label is a
\* base-10 integer; then the score is that integer, whatever its range or
\* sign, and id, content, author name and timestamp are copied unchanged;
\* otherwise it returns an error and no response.  Window 0 shows the
\* conversions in the answer.
C22_ToReviewResponse ==
    /\ \A i \in DOMAIN FeedReviews : ConvertsAsClaimed(FeedReviews[i])
    /\ (Answered("reviews") /\ svc.called /\ svc.hours = 0 /\ Fetched)
         => IF HasBadRating(FeedReviews)
            THEN response.status = StatusInternalServerError
            ELSE /\ response.status = StatusOK
                 /\ response.body.items
                      = [i \in DOMAIN FeedReviews |->
                            ToReviewResponse(FeedReviews[i]).val]

C22_Witness ==
    /\ Answered("reviews") /\ svc.called /\ svc.hours = 0
    /\ response.status = StatusOK
    /\ Len(response.body.items) = 2
    /\ response.body.items[1].Score = -1
    /\ response.body.items[2].Score = 10
    /\ response.body.items[2].Time.layout = "date"

(***************************************************************************)
(* Properties of the empty catalog cache.                                  *)
(***************************************************************************)
\* The cache file decodes to an empty list: an empty array or null.
EmptySnapshot(file) ==
    /\ loadAppsFromFile(file).ok
    /\ Len(loadAppsFromFile(file).apps.elems) = 0

\* C23: a cache file that decodes to an empty list is a cache miss:
\* GetApps calls upstream and, when the fetch and the write succeed, the
\* file holds the fetched entries; no answer from the cache is ever an
\* empty catalog; and every request calls upstream as long as the file
\* holds no non-empty catalog.
C23_EmptyCacheIsMiss ==
    [][ListStep
       => /\ EmptySnapshot(appsFile)
             => /\ svc'.calls = 1
                /\ (ValidCatalog(upApps) /\ svc'.saved)
                     => /\ appsFile'.kind = "json"
                        /\ loadAppsFromFile(appsFile') = DecodeRoot(upApps.body)
          /\ svc'.calls = 0 => response'.body.items # <<>>
          /\ ~NonEmptySnapshot(appsFile) => svc'.calls = 1]_vars

\* An empty upstream catalog was fetched over a cache file holding null,
\* which the failed write left in place: the next request fetches again.
C23_Witness ==
    /\ Answered("list") /\ svc.calls = 1 /\ ~svc.saved
    /\ response.status = StatusOK
    /\ response.body.items = <<>>
    /\ appsFile = JsonFile(JNull)

(***************************************************************************)
(* Monotonicity of the recency window.                                     *)
(***************************************************************************)
\* The hours values of the input pool that the handler accepts as windows.
AcceptedWindows ==
    {n \in {ParseHours(h).val : h \in {s \in HoursPool : ParseHours(s).ok}} :
        n >= 1}

\* The cutoff GetReviews compares with: now plus the 64-bit duration.
Cutoff(now, hours) == TAdd(now, WindowDuration(hours))

\* What GetReviews returns for window hours on the feed and at the time of
\* the request just answered.
ReturnedFor(hours) ==
    GetReviews(hours, upReviews, svc.now, AbsentFile, "ok")

\* C24: for the same feed and time and accepted windows 1 <= H1 <= H2,
\* when both GetReviews calls succeed every review returned for H1 is
\* returned for H2, and the cutoff of H2 is not after the cutoff of H1.
C24_WindowMonotonic ==
    (Answered("reviews") /\ svc.called /\ svc.hours >= 1
        /\ response.status = StatusOK)
    => \A h1 \in AcceptedWindows :
          (h1 <= svc.hours /\ ReturnedFor(h1).err = "")
          => /\ \A i \in DOMAIN ReturnedFor(h1).reviews.elems :
                   \E j \in DOMAIN response.body.items :
                       response.body.items[j] = ReturnedFor(h1).reviews.elems[i]
             /\ ~TLess(Cutoff(svc.now, h1), Cutoff(svc.now, svc.hours))

(***************************************************************************)
(* Concurrent /app/list requests.  net/http runs each request in its own   *)
(* goroutine and AppService holds no lock, so the calls of GetApps         *)
(* interleave at every system call on the cache file.  The content of the  *)
(* file is a sequence of tokens, each standing for a run of bytes of the   *)
(* output of json.MarshalIndent: the opening bracket, one encoded entry,   *)
(* the closing bracket, or the word null.                                  *)
(*   os.ReadFile opens the file, sizes its buffer from the file's size     *)
(* and reads until a read returns nothing, growing the buffer when it is   *)
(* full.  os.WriteFile opens the file with O_TRUNC, which empties it, and  *)
(* then writes the data at offset 0.                                       *)
(***************************************************************************)
MaxCalls == 3

Punct(t) == [t |-> t, v |-> EmptyObj]

ObjToken(o) == [t |-> "obj", v |-> o]

\* The bytes of json.MarshalIndent(data, "", "  ").
Bytes(jsonData) ==
    IF jsonData.null THEN <<Punct("null")>>
    ELSE <<Punct("[")>> \o MapSeq(ObjToken, jsonData.items) \o <<Punct("]")>>

\* What json.Unmarshal makes of the bytes b read from the file: null, an
\* array of objects, or a syntax error.
FileOfBytes(b) ==
    IF Len(b) = 1 /\ b[1].t = "null" THEN JsonFile(JNull)
    ELSE IF /\ Len(b) >= 2
            /\ b[1].t = "[" /\ b[Len(b)].t = "]"
            /\ \A i \in 2..(Len(b) - 1) : b[i].t = "obj"
    THEN JsonFile(JArray([i \in 1..(Len(b) - 2) |-> b[i + 1].v]))
    ELSE CorruptFile

\* The smallest buffer of os.ReadFile (512 bytes), in tokens.
MinReadBuffer == 1

\* os.ReadFile after Open: the buffer holds the size of the file plus one.
ReadBuffer(size) == IF size + 1 < MinReadBuffer THEN MinReadBuffer ELSE size + 1

\* The capacity of the buffer after append grew a full buffer.
GrownBuffer(cap) == 2 * cap

\* One read system call at offset Len(buf) with room for cap - Len(buf).
ReadAt(bytes, buf, cap) ==
    SubSeq(bytes, Len(buf) + 1,
           IF Len(bytes) < cap THEN Len(bytes) ELSE cap)

\* One write system call of data at offset 0 of a file holding bytes.
WriteAt(bytes, data) == data \o SubSeq(bytes, Len(data) + 1, Len(bytes))

\* A GetApps call: where it is, what it has read, fetched and returned.
\* after records that, when the call started, an earlier call had already
\* returned after saving a non-empty catalog.
NewCall(pc, cap, after) ==
    [pc |-> pc, buf |-> <<>>, cap |-> cap, entries |-> NilSlice,
     calls |-> 0, err |-> "", apps |-> NilSlice, after |-> after]

Returned(c, err, apps, calls) ==
    [c EXCEPT !.pc = "done", !.err = err, !.apps = apps, !.calls = calls]

\* GetApps from the return of loadAppsFromFile on, up to s.Client.Get.
cacheLoaded(c, existing) ==
    IF CacheHit(existing)
    THEN Returned(c, "", convertCached(existing.apps), 0)
    ELSE [c EXCEPT !.pc = "get"]

\* GetApps from s.Client.Get to the call of saveAppsToFile.
rootFetched(c, root) ==
    IF ~root.ok
    THEN Returned(c, "failed to unmarshal JSON: " \o JsonText, NilSlice, 1)
    ELSE [c EXCEPT !.pc = "save", !.entries = root.apps, !.calls = 1]

catalogFetched(c, up) ==
    IF up.kind = "transport_error"
    THEN Returned(c, "failed to make HTTP request: " \o TransportText,
                  NilSlice, 1)
    ELSE IF up.status # StatusOK
    THEN Returned(c, "received non-200 status code: " \o ToString(up.status),
                  NilSlice, 1)
    ELSE IF up.body.shape = "unreadable"
    THEN Returned(c, "failed to read response body: " \o ReadText, NilSlice, 1)
    ELSE rootFetched(c, DecodeRoot(up.body))

\* The file as the sequential model sees it.
FileOf(exists, bytes) == IF exists THEN FileOfBytes(bytes) ELSE AbsentFile

SetFlights(calls, bytes, exists, written, saved) ==
    /\ flights' = [calls |-> calls, bytes |-> bytes, exists |-> exists,
                   written |-> written, saved |-> saved]
    /\ appsFile' = FileOf(exists, bytes)
    /\ UNCHANGED <<request, svc, response, upApps, upReviews, clock,
                   reviewsFile, pinned, client, page>>

SetCall(i, c) ==
    SetFlights([flights.calls EXCEPT ![i] = c], flights.bytes,
               flights.exists, flights.written, flights.saved)

\* A request arrives: GetApps calls loadAppsFromFile, whose os.ReadFile
\* opens the file and takes its size, or fails when there is no file.
StartGetApps ==
    /\ Len(flights.calls) < MaxCalls
    /\ SetFlights(
           Append(flights.calls,
                  IF flights.exists
                  THEN NewCall("read", ReadBuffer(Len(flights.bytes)),
                               flights.saved)
                  ELSE NewCall("get", 0, flights.saved)),
           flights.bytes, flights.exists, flights.written, flights.saved)

\* One read of os.ReadFile.  A read that returns nothing is the end of the
\* file: the buffer is decoded and GetApps tests the cached list.
ReadStep(i) ==
    /\ flights.calls[i].pc = "read"
    /\ \E c \in {flights.calls[i]} :
       \E got \in {ReadAt(flights.bytes, c.buf, c.cap)} :
           IF got = <<>>
           THEN SetCall(i, cacheLoaded(c, loadAppsFromFile(FileOfBytes(c.buf))))
           ELSE SetCall(i, [c EXCEPT !.buf = c.buf \o got,
                                     !.cap = IF Len(c.buf \o got) >= c.cap
                                             THEN GrownBuffer(c.cap)
                                             ELSE c.cap])

\* s.Client.Get and the decoding of the body.
GetStep(i) ==
    /\ flights.calls[i].pc = "get"
    /\ SetCall(i, catalogFetched(flights.calls[i], upApps))

\* saveDataToFile up to the open of os.WriteFile, which empties the file.
TruncateStep(i) ==
    /\ flights.calls[i].pc = "save"
    /\ SetFlights([flights.calls EXCEPT ![i].pc = "write"], <<>>, TRUE,
                  flights.written, flights.saved)

\* The write of os.WriteFile and the return of GetApps.
WriteStep(i) ==
    /\ flights.calls[i].pc = "write"
    /\ \E c \in {flights.calls[i]} :
       \E data \in {Bytes(MarshalSlice(EncodeApp, c.entries))} :
           SetFlights(
               [flights.calls EXCEPT
                   ![i] = Returned(c, "", convertRootToAppResponse(c.entries), 1)],
               WriteAt(flights.bytes, data), TRUE,
               flights.written \cup {data},
               flights.saved \/ Len(c.entries.elems) > 0)

\* A catalog; the catalog after its two apps were renamed to names of the
\* same length, so that the bytes of the one line up with the bytes of the
\* other; an empty catalog; and an upstream that is down.
ConcurrentUpstreams ==
    {Http(StatusOK, Entries(<<AppSingle, AppMulti>>)),
     Http(StatusOK,
          Entries(<<[AppSingle EXCEPT !.im_name = [label |-> "Test App 7"]],
                    [AppMulti EXCEPT !.im_name = [label |-> "Test App 8"]]>>)),
     Http(StatusOK, Entries(<<>>)),
     TransportError}

InitConcurrent ==
    /\ InitCommon
    /\ client = NewClient(<<"3", "0">>)
    /\ upApps = Http(StatusOK, Entries(<<AppSingle, AppMulti>>))
    /\ upReviews = TransportError
    /\ clock = T0
    /\ appsFile = AbsentFile
    /\ reviewsFile = AbsentFile

NextConcurrent ==
    \/ StartGetApps
    \/ \E i \in DOMAIN flights.calls : ReadStep(i)
    \/ \E i \in DOMAIN flights.calls : GetStep(i)
    \/ \E i \in DOMAIN flights.calls : TruncateStep(i)
    \/ \E i \in DOMAIN flights.calls : WriteStep(i)
    \/ \E u \in ConcurrentUpstreams : UpstreamAppsChange(u)

SpecConcurrent == InitConcurrent /\ [][NextConcurrent]_vars

(***************************************************************************)
(* Properties of concurrent /app/list requests, checked under              *)
(* SpecConcurrent.                                                         *)
(***************************************************************************)
\* C25: once a GetApps call has returned after saving a non-empty catalog,
\* every GetApps call that starts afterwards is served from the cache file
\* and makes no upstream request, also while earlier calls are in flight.
C25_LaterCallsServedFromCache ==
    \A i \in DOMAIN flights.calls :
        flights.calls[i].after
        => /\ flights.calls[i].pc \in {"read", "done"}
           /\ flights.calls[i].calls = 0
           /\ flights.calls[i].err = ""

\* The call has finished os.ReadFile with the bytes in its buffer.
HasRead(c) == c.cap > 0 /\ c.pc # "read"

\* The list a fully written snapshot decodes and maps to.
ListOfSnapshot(data) ==
    convertCached(loadAppsFromFile(FileOfBytes(data)).apps)

\* C26: under any interleaving, every successful response is the complete
\* mapped list of one upstream payload or of one fully written snapshot of
\* the cache file, and a reader whose bytes are not one fully written
\* snapshot gets a decode error and goes to upstream.
C26_ResponseFromSingleSource ==
    \A i \in DOMAIN flights.calls :
        /\ (flights.calls[i].pc = "done" /\ flights.calls[i].err = "")
           => IF flights.calls[i].calls = 1
              THEN flights.calls[i].apps
                     = convertRootToAppResponse(flights.calls[i].entries)
              ELSE \E data \in flights.written :
                       /\ flights.calls[i].buf = data
                       /\ flights.calls[i].apps = ListOfSnapshot(data)
        /\ (HasRead(flights.calls[i])
              /\ flights.calls[i].buf \notin flights.written)
           => /\ ~loadAppsFromFile(FileOfBytes(flights.calls[i].buf)).ok
              /\ flights.calls[i].calls = 1 \/ flights.calls[i].pc = "get"

(***************************************************************************)
(* The front end's AppReviews component.  Its effect on [appId,            *)
(* selectedHours] starts fetchReviews at mount and after every change of   *)
(* the selected hours; nothing cancels a fetch.  The ?hours= parameter of  *)
(* the page is written by handleHoursChange together with selectedHours    *)
(* and so always agrees with it.  The back end is the handler modelled     *)
(* above, answering for the review feed upReviews at time clock.           *)
(***************************************************************************)
MaxFetches == 3

\* The values of the <option>s of the hours filter.
HourOptions ==
    {<<"2", "4">>, <<"4", "8">>, <<"7", "2">>, <<"9", "6">>, <<"a", "l", "l">>}

\* The hours query parameter of the URL fetchReviews builds.
HoursParam(selectedHours) ==
    IF selectedHours = <<"a", "l", "l">> THEN <<>> ELSE selectedHours

\* What the back end answers to GET /app/reviews?id=42 for these hours.
ServerAnswer(selectedHours) ==
    ReviewsOutcome("42", HoursParam(selectedHours), upReviews, clock,
                   AbsentFile, "ok").response

\* fetchReviews up to the await of fetch: setIsLoading(true),
\* setError(null), and the request is sent.  latest is the outcome of the
\* fetch started last, unknown until it settles.
fetchStarted(p) ==
    [p EXCEPT !.isLoading = TRUE, !.error = "",
              !.started = p.started + 1,
              !.pending = p.pending \cup {[id |-> p.started + 1,
                                           hours |-> p.selectedHours]},
              !.latest = [settled |-> FALSE, ok |-> FALSE, body |-> JNull]]

\* The component after useState and before its effect ran.
Mounted(selectedHours) ==
    [mounted |-> TRUE, selectedHours |-> selectedHours,
     reviews |-> JArray(<<>>), isLoading |-> FALSE, error |-> "",
     started |-> 0, pending |-> {},
     latest |-> [settled |-> FALSE, ok |-> FALSE, body |-> JNull]]

\* The rest of fetchReviews for fetch f once the back end answered resp,
\* or the fetch was rejected: setReviews(data) or setError(err.message),
\* and finally setIsLoading(false).
fetchSettled(p, f, reachable, resp) ==
    LET ok == reachable /\ resp.status = StatusOK
    IN  [p EXCEPT !.reviews = IF ok THEN resp.body ELSE p.reviews,
                  !.error = IF ok THEN p.error
                            ELSE IF reachable
                            THEN "Network response was not ok"
                            ELSE "Failed to fetch",
                  !.isLoading = FALSE,
                  !.pending = p.pending \ {f},
                  !.latest = IF f.id = p.started
                             THEN [settled |-> TRUE, ok |-> ok,
                                   body |-> IF ok THEN resp.body ELSE JNull]
                             ELSE p.latest]

\* handleHoursChange and the effect that the new selectedHours triggers.
handleHoursChange(newHours) ==
    /\ page.started < MaxFetches
    /\ newHours # page.selectedHours
    /\ page' = fetchStarted([page EXCEPT !.selectedHours = newHours])
    /\ UNCHANGED <<request, svc, response, upApps, upReviews, clock, appsFile,
                   reviewsFile, pinned, client, flights>>

\* The response to an in-flight fetch arrives, in any order.
FetchSettles(f, reachable) ==
    /\ f \in page.pending
    /\ page' = fetchSettled(page, f, reachable, ServerAnswer(f.hours))
    /\ UNCHANGED <<request, svc, response, upApps, upReviews, clock, appsFile,
                   reviewsFile, pinned, client, flights>>

\* A feed with a review of half an hour ago and one of a day ago, and an
\* upstream that is down.
PageUpstreams ==
    {Http(StatusOK, Entries(<<RvRecent, RvEdge>>)), TransportError}

InitPage ==
    /\ request = Idle
    /\ svc = NoCall
    /\ response = NoResponse
    /\ pinned = NotPinned
    /\ flights = NoFlights
    /\ client = NewClient(<<"3", "0">>)
    /\ upApps = TransportError
    /\ upReviews \in PageUpstreams
    /\ clock = T0
    /\ appsFile = AbsentFile
    /\ reviewsFile = AbsentFile
    /\ page \in {fetchStarted(Mounted(h)) : h \in HourOptions}

NextPage ==
    \/ \E h \in HourOptions : handleHoursChange(h)
    \/ \E f \in page.pending, reachable \in BOOLEAN : FetchSettles(f, reachable)
    \/ \E u \in PageUpstreams : UpstreamReviewsChange(u)

SpecPage == InitPage /\ [][NextPage]_vars

(***************************************************************************)
(* Properties of the AppReviews component, checked under SpecPage.         *)
(***************************************************************************)
\* C27: every change of the selected hours starts a fetch and none is
\* cancelled; once no fetch is in flight and the fetch started last has
\* succeeded, the list displayed is its response, which no slower response
\* to an earlier selection has overwritten; and the loading flag is false
\* only when no fetch is in flight.
C27_LatestSelectionDisplayed ==
    /\ (page.pending = {} /\ page.latest.settled /\ page.latest.ok)
         => page.reviews = page.latest.body
    /\ ~page.isLoading => page.pending = {}

====
